---- MODULE Spec2Model ----
(***************************************************************************)
(* A model of simulation-software/QpixAsic.py: the ProcQueue event list,   *)
(* the QPByte / QPFifo data types, the per-link busy tracker, the QPixAsic *)
(* routing state machine and the DaqNode sink.                             *)
(*                                                                         *)
(* Time is counted in integer units, TOsc units per oscillator period, so  *)
(* that the random starting phase of an ASIC is a whole number of units.   *)
(* Python's None is the empty sequence and a present value v is <<v>>.     *)
(***************************************************************************)
EXTENDS Integers, Sequences, FiniteSets, TLC

VARIABLES
  queue,     \* the ProcQueue: [items, curItem, entries, processed]
  popped,    \* the ids PopQueue has returned so far, in order
  ret,       \* the call that returned last, its arguments and its result
  asics,     \* node -> QPixAsic object; node 0 is the DaqNode
  configs,   \* the heap of AsicConfig objects
  fatal,     \* a QPException has ended the run
  timeNow,   \* the driver's clock
  pc,        \* where the driver is: setup, pop, process, done
  reqs,      \* the requests scheduled so far: [command, time], ReqID = index
  injected,  \* node -> the number of hits injected
  reqLog,    \* node -> the ReqIDs the node has stored, in order, each with
             \* the state the node was left in
  calls,     \* the calls made on a single object so far
  qpFifo,    \* a QPFifo on its own
  fifoLog    \* the bytes written to qpFifo and the bytes Read has returned

vars == <<queue, popped, ret, asics, configs, fatal, timeNow, pc, reqs,
          injected, reqLog, calls, qpFifo, fifoLog>>

None == <<>>
Some(v) == <<v>>

(***************************************************************************)
(* ProcItem and ProcQueue.  The items ever built live in queue.items, an   *)
(* item's identity is its index there, and _nextItem is an index or 0.     *)
(***************************************************************************)
ProcItem(asic, dir, QPByte, inTime, command) ==
  [asic |-> asic, dir |-> dir, QPByte |-> QPByte, inTime |-> inTime,
   command |-> command, nextItem |-> 0]

\* ProcItem.__gt__
ItemGt(a, b) == a.inTime > b.inTime

EmptyQueue == [items |-> <<>>, curItem |-> 0, entries |-> 0, processed |-> 0]

\* the loop of _AddQueueItem: advance while newItem > curItem and curItem
\* has a successor
RECURSIVE WalkQueue(_, _, _)
WalkQueue(items, cur, new) ==
  IF ItemGt(new, items[cur]) /\ items[cur].nextItem # 0
    THEN WalkQueue(items, items[cur].nextItem, new)
    ELSE cur

\* _AddQueueItem without newItem._nextItem = curItem._nextItem
AddQueueItemDropTail(q, procItem) ==
  LET newId == Len(q.items) + 1
      all   == Append(q.items, procItem)
      cur   == q.curItem
  IN  IF cur = 0
        THEN [q EXCEPT !.items = all, !.curItem = newId, !.entries = @ + 1]
      ELSE IF ItemGt(all[cur], procItem)
        THEN [q EXCEPT !.items = [all EXCEPT ![newId].nextItem = cur],
                       !.curItem = newId, !.entries = @ + 1]
      ELSE LET at == WalkQueue(all, cur, procItem)
           IN  [q EXCEPT !.items = [all EXCEPT ![at].nextItem = newId],
                         !.entries = @ + 1]

_AddQueueItem(q, procItem) ==
  LET newId == Len(q.items) + 1
      all   == Append(q.items, procItem)
      cur   == q.curItem
  IN  IF cur = 0
        THEN [q EXCEPT !.items = all, !.curItem = newId, !.entries = @ + 1]
      ELSE IF ItemGt(all[cur], procItem)
        THEN [q EXCEPT !.items = [all EXCEPT ![newId].nextItem = cur],
                       !.curItem = newId, !.entries = @ + 1]
      ELSE LET at == WalkQueue(all, cur, procItem)
           IN  [q EXCEPT !.items = [all EXCEPT ![newId].nextItem = all[at].nextItem,
                                               ![at].nextItem = newId],
                         !.entries = @ + 1]

\* PopQueue: the queue afterwards and the item returned (None when empty)
PopQueue(q) ==
  IF q.curItem = 0 THEN [q |-> q, data |-> None]
  ELSE [q |-> [q EXCEPT !.processed = @ + 1, !.entries = @ - 1,
                        !.curItem = q.items[q.curItem].nextItem],
        data |-> Some(q.curItem)]

Length(q) == q.entries

\* the ids reachable from the head, in list order
RECURSIVE Chain(_, _, _)
Chain(items, id, fuel) ==
  IF id = 0 \/ fuel = 0 THEN <<>>
  ELSE <<id>> \o Chain(items, items[id].nextItem, fuel - 1)

Queued(q) == Chain(q.items, q.curItem, Len(q.items) + 1)

(***************************************************************************)
(* Program constants.                                                      *)
(***************************************************************************)
N_ZER_CLK_G == 8
N_ONE_CLK_G == 24
N_GAP_CLK_G == 16
N_FIN_CLK_G == 40
N_BITS == 64
FixedTicks == 1700        \* _TransferTicks of a byte without mask or stamp
TransferTicksDefault == 1700   \* QPixAsic(transferTicks=1700)
TOsc == 6                 \* one period of an ASIC (fOsc = 50e6), in time units
DaqTOsc == 10             \* one period of the DaqNode (fOsc = 30e6)
DaqTransferTicks == 0     \* DaqNode passes debugLevel where transferTicks goes
AsicTimeout == 15000      \* QPixAsic(timeout=15000)
DaqTimeout == 1000        \* DaqNode(timeout=1000)
DefaultByteConfig == 1    \* heap index of the default-argument AsicConfig of QPByte
FifoDepth == 256          \* QPFifo(maxDepth=256)

WordValue(w) ==
  CASE w = "DATA" -> 1 [] w = "REGREQ" -> 3 [] w = "REGRESP" -> 4 [] w = "EVTEND" -> 5

\* int(x / y) of Python for y > 0: the quotient truncated toward zero
TruncDiv(x, y) == IF x >= 0 THEN x \div y ELSE -((-x) \div y)

\* bin(int(n)).count("1"): the set bits of the magnitude of n
RECURSIVE PopCount(_)
PopCount(n) ==
  IF n < 0 THEN PopCount(-n)
  ELSE IF n = 0 THEN 0
  ELSE (n % 2) + PopCount(n \div 2)

(***************************************************************************)
(* AsicConfig objects live in a heap (the variable configs): a register    *)
(* write stores the byte's config object itself in the ASIC, so several    *)
(* ASICs and bytes can hold the same object.                               *)
(***************************************************************************)
AsicConfig(DirMask, timeout) ==
  [DirMask |-> DirMask, timeout |-> timeout, ManRoute |-> FALSE,
   EnablePush |-> FALSE, SendRemote |-> FALSE]

(***************************************************************************)
(* QPByte.                                                                 *)
(***************************************************************************)
_TransferTicks(b) ==
  IF b.channelMask = None \/ b.timeStamp = None
    THEN FixedTicks
    ELSE LET highBits == PopCount(b.channelMask[1]) + PopCount(b.timeStamp[1])
                         + PopCount(b.originCol[1]) + PopCount(b.originRow[1])
                         + PopCount(WordValue(b.wordType))
             lowBits  == N_BITS - highBits
             num_gap  == (N_BITS - 1) * N_GAP_CLK_G
             num_data == highBits * N_ONE_CLK_G + lowBits * N_ZER_CLK_G
         IN  num_data + num_gap + N_FIN_CLK_G

\* sum of 0x1 << ch over a channel list
RECURSIVE ChannelBits(_)
ChannelBits(chs) ==
  IF chs = <<>> THEN 0 ELSE 2 ^ Head(chs) + ChannelBits(Tail(chs))

\* self.channelMask |= 0x1 << ch, over a channel list
RECURSIVE OrChannels(_, _)
OrChannels(mask, chs) ==
  IF chs = <<>> THEN mask
  ELSE OrChannels(IF (mask \div (2 ^ Head(chs))) % 2 = 1 THEN mask
                  ELSE mask + 2 ^ Head(chs), Tail(chs))

\* the byte with its transferTicks computed, as the last line of __init__ does
WithTransferTicks(b) == [b EXCEPT !.transferTicks = _TransferTicks(b)]

\* QPByte.__init__; req carries the REGREQ keyword arguments
QPByteInit(wordType, originRow, originCol, timeStamp, channelList, data, req) ==
  WithTransferTicks(
    [wordType |-> wordType, originRow |-> originRow, originCol |-> originCol,
     SrcDaq |-> (originCol = None /\ originRow = None),
     data |-> data, timeStamp |-> timeStamp,
     channelMask |->
       IF wordType \in {"REGREQ", "REGRESP"} THEN None
       ELSE IF channelList = None THEN Some(0)
       ELSE Some(OrChannels(0, channelList[1])),
     Dest |-> req.Dest, OpWrite |-> req.OpWrite, OpRead |-> req.OpRead,
     XDest |-> req.XDest, YDest |-> req.YDest, ReqID |-> req.ReqID,
     config |-> req.config, transferTicks |-> 0])

\* the keyword defaults of QPByte.__init__; config is the default-argument object
NoReq == [Dest |-> FALSE, OpWrite |-> FALSE, OpRead |-> FALSE, XDest |-> None,
          YDest |-> None, ReqID |-> -1, config |-> DefaultByteConfig]

(***************************************************************************)
(* QPFifo.                                                                 *)
(***************************************************************************)
QPFifoInit(maxDepth) ==
  [data |-> <<>>, maxSize |-> 0, curSize |-> 0, maxDepth |-> maxDepth,
   full |-> FALSE, totalWrites |-> 0]

\* Write without the full flag
FifoWriteNoFull(f, byte) ==
  [f EXCEPT !.data = Append(@, byte), !.curSize = @ + 1,
            !.totalWrites = @ + 1,
            !.maxSize = IF f.curSize + 1 > @ THEN f.curSize + 1 ELSE @]

FifoWrite(f, byte) ==
  [f EXCEPT !.data = Append(@, byte), !.curSize = @ + 1,
            !.totalWrites = @ + 1,
            !.maxSize = IF f.curSize + 1 > @ THEN f.curSize + 1 ELSE @,
            !.full = IF f.curSize + 1 > f.maxDepth THEN TRUE ELSE @]

\* Read that returns the newest byte
FifoReadNewest(f) ==
  IF f.curSize > 0
    THEN [fifo |-> [f EXCEPT !.curSize = @ - 1,
                             !.data = SubSeq(@, 1, Len(@) - 1)],
          byte |-> Some(f.data[Len(f.data)])]
    ELSE [fifo |-> f, byte |-> None]

\* Read: the fifo afterwards and the byte returned (None when empty)
FifoRead(f) ==
  IF f.curSize > 0
    THEN [fifo |-> [f EXCEPT !.curSize = @ - 1, !.data = Tail(@)],
          byte |-> Some(Head(f.data))]
    ELSE [fifo |-> f, byte |-> None]

\* nothing written to the QPFifo, nothing read from it
NoLog == [written |-> <<>>, read |-> <<>>]

(***************************************************************************)
(* AsicConnections.connection: one Tx/Rx pair.  txBusy and rxBusy start as *)
(* False, which Python compares as 0.                                      *)
(***************************************************************************)
Connection(dir, transTime, asic) ==
  [dir |-> dir, transTime |-> transTime, asic |-> asic, txBusy |-> 0, rxBusy |-> 0]

\* send without the busy test: txBusy is always moved to T
sendAlways(c, T) == [conn |-> [c EXCEPT !.txBusy = T], busy |-> FALSE]

\* connection.send(T): the connection afterwards and whether the line is busy
send(c, T) ==
  IF c.txBusy > T - c.transTime
    THEN [conn |-> c, busy |-> (c.asic # None)]
    ELSE [conn |-> [c EXCEPT !.txBusy = T], busy |-> FALSE]

\* connection.recv(T)
recv(c, T) == IF c.rxBusy > T THEN c ELSE [c EXCEPT !.rxBusy = T]

(***************************************************************************)
(* QPixAsic.  a is the ASIC object; a.config is the index of its AsicConfig *)
(* in the heap.  Directions are North = 0, East = 1, South = 2, West = 3.  *)
(* A call that may raise QPException returns a record with a field exc.    *)
(***************************************************************************)
Dirs == 0 .. 3
Opposite(i) == (i + 2) % 4

\* QPixAsic.__init__ with the neighbours already wired (nbr[d] is None or
\* <<node>>) and the random starting phase drawn
QPixAsicInit(row, col, tOsc, transferTicks, phase, cfgId, nbr) ==
  [row |-> row, col |-> col, command |-> None, tOsc |-> tOsc,
   timeoutStart |-> 0, pTimeoutStart |-> 0, config |-> cfgId,
   transferTicks |-> transferTicks, transferTime |-> transferTicks * tOsc,
   absTimeNow |-> 0, relTimeNow |-> phase, startTime |-> phase, relTicksNow |-> 0,
   state |-> "Idle", isDaqNode |-> FALSE,
   reqID |-> -1, intID |-> -1, intTick |-> -1,
   connections |-> [d \in Dirs |-> Connection(d, transferTicks * tOsc, nbr[d])],
   localFifo |-> QPFifoInit(FifoDepth), remoteFifo |-> QPFifoInit(FifoDepth),
   times |-> <<>>, channels |-> <<>>]

_changeState(a, newState) ==
  [a EXCEPT !.state = newState,
            !.timeoutStart = IF newState = "TransmitRemote"
                                /\ a.state \in {"Finish", "Idle"}
                               THEN a.absTimeNow ELSE @]

CalcTicks(a, absTime) == TruncDiv(absTime - a.startTime, a.tOsc) + 1

\* the clock part of UpdateTime without the test absTime > _absTimeNow
AdvanceTimeUnguarded(a, absTime) ==
  [a EXCEPT !.absTimeNow = absTime,
            !.relTimeNow = @ + (TruncDiv(absTime - a.relTimeNow, a.tOsc) + 1) * a.tOsc,
            !.relTicksNow = @ + TruncDiv(absTime - a.relTimeNow, a.tOsc) + 1]

\* the clock part of UpdateTime: forward only
AdvanceTime(a, absTime) ==
  IF absTime > a.absTimeNow
    THEN [a EXCEPT !.absTimeNow = absTime,
                   !.relTimeNow = @ + (TruncDiv(absTime - a.relTimeNow, a.tOsc) + 1) * a.tOsc,
                   !.relTicksNow = @ + TruncDiv(absTime - a.relTimeNow, a.tOsc) + 1]
    ELSE a

\* what UpdateTime returns: the ASIC afterwards, transT, and whether it raised
Updated(a, transT, exc) == [a |-> a, transT |-> transT, exc |-> exc]

\* UpdateTime after the retry send(transT) on link i has returned second
UpdateTimeRetried(a, absTime, i, transT, second) ==
  IF second.busy THEN Updated(a, transT, TRUE)
  ELSE Updated(AdvanceTime([a EXCEPT !.connections[i] = second.conn], absTime),
               transT, FALSE)

\* the busy branch of UpdateTime: retry at txBusy + transferTime + tOsc
UpdateTimeRetry(a, absTime, i, transT) ==
  UpdateTimeRetried(a, absTime, i, transT, send(a.connections[i], transT))

\* UpdateTime with isTx whose retry comes one period after txBusy
UpdateTimeSentEarly(a, absTime, i, first) ==
  IF first.busy
    THEN UpdateTimeRetry(a, absTime, i, a.connections[i].txBusy + a.tOsc)
    ELSE Updated(AdvanceTime([a EXCEPT !.connections[i] = recv(first.conn, absTime)],
                             absTime),
                 absTime, FALSE)

\* UpdateTime with isTx after send(absTime) on link i has returned first
UpdateTimeSent(a, absTime, i, first) ==
  IF first.busy
    THEN UpdateTimeRetry(a, absTime, i,
                         a.connections[i].txBusy + a.transferTime + a.tOsc)
    ELSE Updated(AdvanceTime([a EXCEPT !.connections[i] = recv(first.conn, absTime)],
                             absTime),
                 absTime, FALSE)

\* UpdateTime(absTime, dir, isTx): dir is None or <<i>>
UpdateTime(a, absTime, dir, isTx) ==
  IF dir = None THEN Updated(AdvanceTime(a, absTime), absTime, FALSE)
  ELSE IF isTx
    THEN UpdateTimeSent(a, absTime, dir[1], send(a.connections[dir[1]], absTime))
  ELSE Updated(AdvanceTime([a EXCEPT !.connections[dir[1]] = recv(@, absTime)],
                           absTime),
               absTime, FALSE)

\* the prefix of the sorted hit times that np.less_equal selects
RECURSIVE CountLeq(_, _)
CountLeq(times, t) ==
  IF times = <<>> \/ Head(times) > t THEN 0 ELSE 1 + CountLeq(Tail(times), t)

\* the byte _ReadHits builds for one hit: constructed with no channel list,
\* its channelMask assigned afterwards
ReadHitByte(a, inTime, ch) ==
  [QPByteInit("DATA", Some(a.row), Some(a.col), Some(CalcTicks(a, inTime)),
              None, Some(inTime), NoReq) EXCEPT !.channelMask = Some(ch)]

RECURSIVE WriteHits(_, _, _, _)
WriteHits(a, fifo, k, n) ==
  IF k > n THEN fifo
  ELSE WriteHits(a, FifoWrite(fifo, ReadHitByte(a, a.times[k], a.channels[k])),
                 k + 1, n)

\* _ReadHits with the first n hits selected
ReadFirst(a, n) ==
  [a |-> [a EXCEPT !.localFifo = WriteHits(a, a.localFifo, 1, n),
                   !.times = SubSeq(a.times, n + 1, Len(a.times)),
                   !.channels = SubSeq(a.channels, n + 1, Len(a.channels))],
   count |-> n]

\* _ReadHits(targetTime): the ASIC afterwards and the count returned
_ReadHits(a, targetTime) ==
  IF Len(a.times) > 0 /\ targetTime > a.times[1]
    THEN ReadFirst(a, CountLeq(a.times, targetTime))
    ELSE [a |-> a, count |-> 0]

\* sorted(zip(times, channels)): insertion of one (time, channel list) pair,
\* ordered by time and then by channel list
RECURSIVE SeqLess(_, _)
SeqLess(x, y) ==
  IF y = <<>> THEN FALSE
  ELSE IF x = <<>> THEN TRUE
  ELSE IF Head(x) # Head(y) THEN Head(x) < Head(y)
  ELSE SeqLess(Tail(x), Tail(y))

PairLess(p, q) == p[1] < q[1] \/ (p[1] = q[1] /\ SeqLess(p[2], q[2]))

RECURSIVE SortedInsert(_, _)
SortedInsert(sorted, p) ==
  IF sorted = <<>> THEN <<p>>
  ELSE IF PairLess(p, Head(sorted)) THEN <<p>> \o sorted
  ELSE <<Head(sorted)>> \o SortedInsert(Tail(sorted), p)

RECURSIVE SortPairs(_)
SortPairs(ps) ==
  IF ps = <<>> THEN <<>> ELSE SortedInsert(SortPairs(Tail(ps)), Head(ps))

\* the ASIC holding the sorted pairs s as its times and channel masks
InjectSorted(a, s) ==
  [a EXCEPT !.times = [k \in 1 .. Len(s) |-> s[k][1]],
            !.channels = [k \in 1 .. Len(s) |-> ChannelBits(s[k][2])]]

\* InjectHits(times, channels) on an ASIC that holds no injected hits yet;
\* hits is the sequence of (time, channel list) pairs
InjectHits(a, hits) ==
  IF Len(hits) = 0 THEN a ELSE InjectSorted(a, SortPairs(hits))

\* one element of the list ReceiveByte or Process returns:
\* (destination, ingress direction there, byte, time, command)
Event(asic, dir, byte, inTime, command) ==
  [asic |-> asic, dir |-> dir, QPByte |-> byte, inTime |-> inTime,
   command |-> command]

\* the tuple tagged with the egress direction itself
EmittedSameDir(r, i, byte, command, u) ==
  [a |-> u.a,
   out |-> IF u.exc THEN r.out
           ELSE Append(r.out, Event(r.a.connections[i].asic, i,
                                    byte, u.transT, command)),
   exc |-> u.exc]

\* the tuple appended once UpdateTime has returned u
Emitted(r, i, byte, command, u) ==
  [a |-> u.a,
   out |-> IF u.exc THEN r.out
           ELSE Append(r.out, Event(r.a.connections[i].asic, Opposite(i),
                                    byte, u.transT, command)),
   exc |-> u.exc]

\* emit byte on link i at completion time T: UpdateTime, then the tuple appended
Emit(r, i, byte, T, command) ==
  IF r.exc THEN r
  ELSE Emitted(r, i, byte, command, UpdateTime(r.a, T, Some(i), TRUE))

\* the BROADCAST loop of ReceiveByte, from direction i on
RECURSIVE Broadcast(_, _, _, _, _, _)
Broadcast(r, i, inDir, inByte, inTime, inCommand) ==
  IF i > 3 THEN r
  ELSE Broadcast(IF i # inDir /\ r.a.connections[i].asic # None
                   THEN Emit(r, i, inByte, inTime + inByte.transferTicks * r.a.tOsc,
                             inCommand)
                   ELSE r,
                 i + 1, inDir, inByte, inTime, inCommand)

\* what an Interrogate, HardInterrogate or Calibrate puts into the ASIC
ReadCommand(a, inByte, inTime, inCommand) ==
  IF inCommand \in {Some("Interrogate"), Some("HardInterrogate")}
    THEN [_ReadHits(a, inTime).a EXCEPT
            !.intID = inByte.ReqID, !.intTick = CalcTicks(a, inTime)]
  ELSE IF inCommand = Some("Calibrate")
    THEN [a EXCEPT !.localFifo =
            FifoWrite(@, QPByteInit("REGRESP", Some(a.row), Some(a.col),
                                    Some(CalcTicks(a, inTime)), None,
                                    Some(inTime), NoReq))]
  ELSE a

\* the command always leaves the ASIC in TransmitLocal
EnterTransmitLocal(a, inCommand) ==
  [_changeState(a, "TransmitLocal") EXCEPT !.command = inCommand]

\* the state the command leaves the ASIC in
EnterTransmit(a, inCommand) ==
  [_changeState(a, IF a.localFifo.curSize > 0 \/ inCommand = Some("HardInterrogate")
                     THEN "TransmitLocal" ELSE "TransmitRemote")
     EXCEPT !.command = inCommand]

\* the command branch of ReceiveByte (neither OpWrite nor OpRead)
ReceiveCommand(a, inByte, inTime, inCommand) ==
  EnterTransmit(ReadCommand(a, inByte, inTime, inCommand), inCommand)

\* the OpRead branch of ReceiveByte: byteOut sent toward DirMask
Respond(r, dirMask, byteOut, inTime) ==
  Emit(r, dirMask, byteOut, inTime + r.a.tOsc * byteOut.transferTicks, None)

\* the register branches of ReceiveByte on an ASIC that has stored the ReqID
Handle(a, cfgs, inByte, inTime, inCommand) ==
  IF ~((inByte.XDest = Some(a.row) /\ inByte.YDest = Some(a.col)) \/ ~inByte.Dest)
    THEN [a |-> a, out |-> <<>>, exc |-> FALSE]
  ELSE IF inByte.OpWrite
    THEN [a |-> [a EXCEPT !.config = inByte.config], out |-> <<>>, exc |-> FALSE]
  ELSE IF inByte.OpRead
    THEN Respond([a |-> a, out |-> <<>>, exc |-> FALSE], cfgs[a.config].DirMask,
                 QPByteInit("REGRESP", Some(a.row), Some(a.col), None, None, None,
                            [NoReq EXCEPT !.config = a.config]),
                 inTime)
  ELSE [a |-> ReceiveCommand(a, inByte, inTime, inCommand), out |-> <<>>,
        exc |-> FALSE]

\* what ReceiveByte returns, with the AsicConfig heap it leaves
Received(r, cfgs) == [a |-> r.a, cfgs |-> cfgs, out |-> r.out, exc |-> r.exc]

\* ReceiveByte of a REGREQ with a new ReqID: the route is learnt (unless
\* ManRoute), the request handled and then broadcast
Accept(a, cfgs, inDir, inByte, inTime, inCommand) ==
  Received(Broadcast(Handle(a, cfgs, inByte, inTime, inCommand),
                     0, inDir, inByte, inTime, inCommand),
           cfgs)

\* ReceiveByte without the test _reqID == inByte.ReqID
ReceiveByteNoDedupe(a, cfgs, queueItem) ==
  IF a.connections[queueItem.dir].asic = None
    THEN [a |-> a, cfgs |-> cfgs, out |-> <<>>, exc |-> FALSE]
  ELSE IF queueItem.QPByte.wordType # "REGREQ"
    THEN [a |-> [a EXCEPT !.remoteFifo = FifoWrite(@, queueItem.QPByte)],
          cfgs |-> cfgs, out |-> <<>>, exc |-> FALSE]
  ELSE Accept([a EXCEPT !.reqID = queueItem.QPByte.ReqID],
              IF ~cfgs[a.config].ManRoute
                THEN [cfgs EXCEPT ![a.config].DirMask = queueItem.dir] ELSE cfgs,
              queueItem.dir, queueItem.QPByte, queueItem.inTime, queueItem.command)

\* ReceiveByte that learns the direction opposite to the ingress one
ReceiveByteAway(a, cfgs, queueItem) ==
  IF a.connections[queueItem.dir].asic = None
    THEN [a |-> a, cfgs |-> cfgs, out |-> <<>>, exc |-> FALSE]
  ELSE IF queueItem.QPByte.wordType # "REGREQ"
    THEN [a |-> [a EXCEPT !.remoteFifo = FifoWrite(@, queueItem.QPByte)],
          cfgs |-> cfgs, out |-> <<>>, exc |-> FALSE]
  ELSE IF a.reqID = queueItem.QPByte.ReqID
    THEN [a |-> a, cfgs |-> cfgs, out |-> <<>>, exc |-> FALSE]
  ELSE Accept([a EXCEPT !.reqID = queueItem.QPByte.ReqID],
              IF ~cfgs[a.config].ManRoute
                THEN [cfgs EXCEPT ![a.config].DirMask = Opposite(queueItem.dir)]
                ELSE cfgs,
              queueItem.dir, queueItem.QPByte, queueItem.inTime, queueItem.command)

\* QPixAsic.ReceiveByte(queueItem): [a, cfgs, out, exc]
ReceiveByte(a, cfgs, queueItem) ==
  IF a.connections[queueItem.dir].asic = None
    THEN [a |-> a, cfgs |-> cfgs, out |-> <<>>, exc |-> FALSE]
  ELSE IF queueItem.QPByte.wordType # "REGREQ"
    THEN [a |-> [a EXCEPT !.remoteFifo = FifoWrite(@, queueItem.QPByte)],
          cfgs |-> cfgs, out |-> <<>>, exc |-> FALSE]
  ELSE IF a.reqID = queueItem.QPByte.ReqID
    THEN [a |-> a, cfgs |-> cfgs, out |-> <<>>, exc |-> FALSE]
  ELSE Accept([a EXCEPT !.reqID = queueItem.QPByte.ReqID],
              IF ~cfgs[a.config].ManRoute
                THEN [cfgs EXCEPT ![a.config].DirMask = queueItem.dir] ELSE cfgs,
              queueItem.dir, queueItem.QPByte, queueItem.inTime, queueItem.command)

\* timeout()
timeout(a, cfgs) ==
  IF cfgs[a.config].SendRemote
    THEN a.remoteFifo.curSize = 0
    ELSE a.absTimeNow - a.timeoutStart > cfgs[a.config].timeout * a.tOsc

\* one pass of the loop of _processTransmitLocalState; rd is localFifo.Read()
LocalSend(r, cfgs, rd) ==
  Emit([r EXCEPT !.a.localFifo = rd.fifo], cfgs[r.a.config].DirMask, rd.byte[1],
       r.a.absTimeNow + r.a.tOsc * rd.byte[1].transferTicks, None)

\* the while loop of _processTransmitLocalState
RECURSIVE LocalLoop(_, _, _)
LocalLoop(r, cfgs, targetTime) ==
  IF ~r.exc /\ r.a.absTimeNow < targetTime /\ r.a.localFifo.curSize > 0
    THEN LocalLoop(LocalSend(r, cfgs, FifoRead(r.a.localFifo)), cfgs, targetTime)
    ELSE r

\* _processTransmitLocalState that never moves on to Finish
ToFinishNever(r) == r

\* the end of _processTransmitLocalState: Finish once the local FIFO is empty
ToFinish(r) ==
  IF ~r.exc /\ r.a.localFifo.curSize = 0
    THEN [r EXCEPT !.a = _changeState(@, "Finish")] ELSE r

_processTransmitLocalState(a, cfgs, targetTime) ==
  ToFinish(LocalLoop([a |-> a, out |-> <<>>, exc |-> FALSE], cfgs, targetTime))

\* the handlers end without the change to TransmitRemote
ToTransmitRemoteNever(r) == r

\* the last step of _processFinishState and of the remote drain
ToTransmitRemote(r) ==
  IF r.exc THEN r ELSE [r EXCEPT !.a = _changeState(@, "TransmitRemote")]

\* the finish word sent toward DirMask
SendFinish(a, cfgs, finishByte) ==
  Emit([a |-> a, out |-> <<>>, exc |-> FALSE], cfgs[a.config].DirMask,
       finishByte, a.absTimeNow + a.tOsc * finishByte.transferTicks, None)

\* _processFinishState without the finish word
_processFinishStateSilent(a, cfgs, targetTime) ==
  [a |-> _changeState(a, "TransmitRemote"), out |-> <<>>, exc |-> FALSE]

_processFinishState(a, cfgs, targetTime) ==
  ToTransmitRemote(
    SendFinish(a, cfgs, QPByteInit("EVTEND", Some(a.row), Some(a.col),
                                   Some(a.intTick), None, Some(a.intID), NoReq)))

\* the while loop of _processTransmitRemoteState; T is transactionCompleteTime
RECURSIVE RemoteLoop(_, _, _)

\* one pass of the loop; rd is remoteFifo.Read()
RemoteSend(r, cfgs, T, rd) ==
  Emit([r EXCEPT !.a.remoteFifo = rd.fifo], cfgs[r.a.config].DirMask, rd.byte[1],
       T, None)

\* the next pass, with transactionCompleteTime = _absTimeNow + transferTime
RemoteNext(r, cfgs) == RemoteLoop(r, cfgs, r.a.absTimeNow + r.a.transferTime)

RemoteLoop(r, cfgs, T) ==
  IF ~r.exc /\ r.a.remoteFifo.curSize > 0 /\ ~timeout(r.a, cfgs)
    THEN RemoteNext(RemoteSend(r, cfgs, T, FifoRead(r.a.remoteFifo)), cfgs)
    ELSE r

_processTransmitRemoteState(a, cfgs, targetTime) ==
  IF timeout(a, cfgs)
    THEN [a |-> _changeState(a, "Idle"), out |-> <<>>, exc |-> FALSE]
  ELSE IF a.remoteFifo.curSize = 0
    THEN IF targetTime > a.timeoutStart + cfgs[a.config].timeout * a.tOsc
           THEN [a |-> _changeState(
                         UpdateTime(a, a.timeoutStart
                                       + cfgs[a.config].timeout * a.tOsc,
                                    None, None).a,
                         "Idle"),
                 out |-> <<>>, exc |-> FALSE]
           ELSE [a |-> UpdateTime(a, targetTime, None, None).a, out |-> <<>>,
                 exc |-> FALSE]
  ELSE ToTransmitRemote(
         RemoteLoop([a |-> _changeState(a, "TransmitRemoteFull"), out |-> <<>>,
                     exc |-> FALSE],
                    cfgs, a.absTimeNow + a.transferTime))

_processMeasuringState(a, targetTime) ==
  [a |-> UpdateTime(a, targetTime, None, None).a, out |-> <<>>, exc |-> FALSE]

\* the push branch of Process; rh is what _ReadHits(targetTime) returned
PushHits(rh, targetTime) ==
  IF rh.count > 0
    THEN _changeState([rh.a EXCEPT !.pTimeoutStart = targetTime], "TransmitLocal")
    ELSE rh.a

\* the command / push / sendRemote prologue of Process
ProcessCommands(a, cfgs, targetTime) ==
  IF a.command = Some("Calibrate") \/ a.command = Some("Interrogate")
    THEN [a EXCEPT !.command = None]
  ELSE IF cfgs[a.config].EnablePush
    THEN PushHits(_ReadHits(a, targetTime), targetTime)
  ELSE IF cfgs[a.config].SendRemote /\ a.remoteFifo.curSize > 0
    THEN _changeState(a, "TransmitRemoteFull")
  ELSE a

\* the state machine of Process
ProcessState(a, cfgs, targetTime) ==
  CASE a.state = "Idle" -> _processMeasuringState(a, targetTime)
    [] a.state = "TransmitLocal" -> _processTransmitLocalState(a, cfgs, targetTime)
    [] a.state = "Finish" -> _processFinishState(a, cfgs, targetTime)
    [] a.state \in {"TransmitRemote", "TransmitRemoteFull"} ->
         _processTransmitRemoteState(a, cfgs, targetTime)
    [] OTHER -> [a |-> _changeState(a, "Idle"), out |-> <<>>, exc |-> FALSE]

\* QPixAsic.Process(targetTime): [a, out, exc]
Process(a, cfgs, targetTime) ==
  IF a.isDaqNode \/ a.absTimeNow >= targetTime
    THEN [a |-> a, out |-> <<>>, exc |-> FALSE]
  ELSE ProcessState(ProcessCommands(a, cfgs, targetTime), cfgs, targetTime)

(***************************************************************************)
(* DaqNode.                                                                *)
(***************************************************************************)
DaqFifoInit ==
  QPFifoInit(FifoDepth) @@
  [dataWords |-> 0, endWords |-> 0, reqWords |-> 0, respWords |-> 0]

\* DaqFifo.Write without the REGREQ tally
DaqFifoWriteUntallied(f, d) ==
  [f EXCEPT !.data = Append(@, d), !.curSize = @ + 1, !.totalWrites = @ + 1,
            !.dataWords = IF d.wordType = "DATA" THEN @ + 1 ELSE @,
            !.endWords = IF d.wordType = "EVTEND" THEN @ + 1 ELSE @,
            !.respWords = IF d.wordType = "REGRESP" THEN @ + 1 ELSE @,
            !.maxSize = IF f.curSize + 1 > @ THEN f.curSize + 1 ELSE @,
            !.full = IF f.curSize + 1 > f.maxDepth THEN TRUE ELSE @]

\* DaqFifo.Write(DaqData)
DaqFifoWrite(f, d) ==
  [f EXCEPT !.data = Append(@, d), !.curSize = @ + 1, !.totalWrites = @ + 1,
            !.dataWords = IF d.wordType = "DATA" THEN @ + 1 ELSE @,
            !.endWords = IF d.wordType = "EVTEND" THEN @ + 1 ELSE @,
            !.reqWords = IF d.wordType = "REGREQ" THEN @ + 1 ELSE @,
            !.respWords = IF d.wordType = "REGRESP" THEN @ + 1 ELSE @,
            !.maxSize = IF f.curSize + 1 > @ THEN f.curSize + 1 ELSE @,
            !.full = IF f.curSize + 1 > f.maxDepth THEN TRUE ELSE @]

DaqData(daqT, wordType, row, col, qbyte) ==
  [daqT |-> daqT, wordType |-> wordType, row |-> row, col |-> col, qbyte |-> qbyte]

DaqNodeInit(row, col, phase, cfgId, nbr) ==
  [QPixAsicInit(row, col, DaqTOsc, DaqTransferTicks, phase, cfgId, nbr)
     EXCEPT !.isDaqNode = TRUE, !.localFifo = DaqFifoInit, !.reqID = @ + 1]
  @@ [received_asics |-> {}]

\* the DaqNode, its clock updated, recording inByte
DaqRecord(a, inByte) ==
  [a EXCEPT !.localFifo =
              DaqFifoWrite(@, DaqData(a.relTicksNow, inByte.wordType,
                                      inByte.originRow, inByte.originCol, inByte)),
            !.received_asics = @ \cup {<<inByte.originRow, inByte.originCol>>}]

\* DaqNode.ReceiveByte(queueItem): the DaqNode afterwards; it returns []
DaqReceiveByte(a, queueItem) ==
  DaqRecord(UpdateTime(a, queueItem.inTime, None, None).a, queueItem.QPByte)

(***************************************************************************)
(* The mesh and the driver.  A mesh of rows x cols cells, node = row * cols *)
(* + col; cell (0,0) is the DaqNode and every other cell an ASIC.          *)
(***************************************************************************)
Nodes(mesh) == 0 .. mesh.rows * mesh.cols - 1
Asics(mesh) == Nodes(mesh) \ {0}
RowOf(mesh, n) == n \div mesh.cols
ColOf(mesh, n) == n % mesh.cols

\* the neighbour of node n in direction d: None at the edge of the mesh
MeshNbr(mesh, n, d) ==
  LET r == RowOf(mesh, n) + (CASE d = 0 -> -1 [] d = 2 -> 1 [] OTHER -> 0)
      c == ColOf(mesh, n) + (CASE d = 1 -> 1 [] d = 3 -> -1 [] OTHER -> 0)
  IN  IF r \in 0 .. mesh.rows - 1 /\ c \in 0 .. mesh.cols - 1
        THEN Some(r * mesh.cols + c) ELSE None

NodeConfig(n) == n + 2

BuildMesh(mesh, phases) ==
  [n \in Nodes(mesh) |->
     LET nbr == [d \in Dirs |-> MeshNbr(mesh, n, d)]
     IN  IF n = 0
           THEN DaqNodeInit(RowOf(mesh, n), ColOf(mesh, n), phases[n], NodeConfig(n), nbr)
           ELSE QPixAsicInit(RowOf(mesh, n), ColOf(mesh, n), TOsc, TransferTicksDefault,
                             phases[n], NodeConfig(n), nbr)]

\* the egress direction of node n toward the DaqNode: West along a row,
\* North in column 0
RouteToDaq(mesh, n) == IF ColOf(mesh, n) > 0 THEN 3 ELSE 0

\* the AsicConfig heap after construction: the default argument of QPByte,
\* then one object per node, with the flags the test set-up has switched on;
\* an ASIC set up to push is also given its route, as it sends unasked
BuildConfigs(mesh, flags) ==
  [k \in 1 .. mesh.rows * mesh.cols + 1 |->
     IF k = DefaultByteConfig THEN AsicConfig(0, AsicTimeout)
     ELSE IF k = NodeConfig(0) THEN AsicConfig(0, DaqTimeout)
     ELSE [AsicConfig(IF flags.EnablePush THEN RouteToDaq(mesh, k - 2) ELSE 0,
                      AsicTimeout)
             EXCEPT !.EnablePush = flags.EnablePush,
                    !.SendRemote = flags.SendRemote]]

(***************************************************************************)
(* The driver: requests are scheduled and hits injected before the run;    *)
(* the run then repeats: pop the earliest entry and hand it to its         *)
(* destination's ReceiveByte, push what that returns, Process every ASIC   *)
(* up to the current time; with the queue empty the clock advances by      *)
(* DeltaT; the run ends when the clock has reached EndTime.                *)
(***************************************************************************)
MaxReqs == 2          \* requests scheduled in one run
DeltaT == 30000       \* the driver's time step when the queue is empty
EndTime == 240000     \* the time the run is driven to

NoFlags == [EnablePush |-> FALSE, SendRemote |-> FALSE]
Meshes == {[rows |-> 1, cols |-> 2], [rows |-> 1, cols |-> 3], [rows |-> 2, cols |-> 2]}
Phases == {-3, 2}
FlagChoices == {NoFlags, [EnablePush |-> TRUE, SendRemote |-> FALSE],
                [EnablePush |-> FALSE, SendRemote |-> TRUE]}
Commands == {"Interrogate", "HardInterrogate"}
ScheduleTimes == {3000, 9000}
HitLists == {<< <<2100, <<1, 3, 8>>>>, <<1500, <<3>>>> >>}
InjectNodes == {1, 2}

InitMesh ==
  \E mesh \in Meshes, ph \in Phases, flags \in FlagChoices :
    /\ asics = BuildMesh(mesh, [n \in Nodes(mesh) |-> IF n = 0 THEN 0 ELSE ph])
    /\ configs = BuildConfigs(mesh, flags)
    /\ queue = EmptyQueue
    /\ popped = <<>>
    /\ ret = [op |-> "init"]
    /\ fatal = FALSE
    /\ timeNow = 0
    /\ pc = "setup"
    /\ reqs = <<>>
    /\ injected = [n \in Nodes(mesh) |-> 0]
    /\ reqLog = [n \in Nodes(mesh) |-> <<>>]
    /\ calls = 0
    /\ qpFifo = QPFifoInit(FifoDepth)
    /\ fifoLog = NoLog

AsicNodes == DOMAIN asics \ {0}

\* push the tuples a call returned, in order
RECURSIVE PushAll(_, _)
PushAll(q, events) ==
  IF events = <<>> THEN q
  ELSE PushAll(_AddQueueItem(q, ProcItem(Head(events).asic, Head(events).dir,
                                         Head(events).QPByte, Head(events).inTime,
                                         Head(events).command)),
               Tail(events))

\* the REGREQ seeds of one request: one per neighbour of the DaqNode
RECURSIVE Seeds(_, _, _, _)
Seeds(d, byte, t, cmd) ==
  IF d > 3 THEN <<>>
  ELSE (IF asics[0].connections[d].asic # None
          THEN <<Event(asics[0].connections[d].asic, Opposite(d), byte, t, Some(cmd))>>
          ELSE <<>>)
       \o Seeds(d + 1, byte, t, cmd)

InjectCall(n, hits) ==
  /\ pc = "setup"
  /\ n \in AsicNodes
  /\ injected[n] = 0
  /\ asics' = [asics EXCEPT ![n] = InjectHits(@, hits)]
  /\ injected' = [injected EXCEPT ![n] = Len(hits)]
  /\ ret' = [op |-> "InjectHits", node |-> n]
  /\ UNCHANGED <<queue, popped, configs, fatal, timeNow, pc, reqs, reqLog,
                 calls, qpFifo, fifoLog>>

Schedule(cmd, t) ==
  /\ pc = "setup"
  /\ Len(reqs) < MaxReqs
  /\ reqs' = Append(reqs, [command |-> cmd, time |-> t])
  /\ queue' = PushAll(queue,
                Seeds(0, QPByteInit("REGREQ", None, None, None, None, None,
                                    [NoReq EXCEPT !.ReqID = Len(reqs) + 1]), t, cmd))
  /\ ret' = [op |-> "Schedule", command |-> cmd, time |-> t]
  /\ UNCHANGED <<popped, asics, configs, fatal, timeNow, pc, injected, reqLog,
                 calls, qpFifo, fifoLog>>

Start ==
  /\ pc = "setup"
  /\ pc' = "process"
  /\ ret' = [op |-> "Start"]
  /\ UNCHANGED <<queue, popped, asics, configs, fatal, timeNow, reqs, injected,
                 reqLog, calls, qpFifo, fifoLog>>

\* the entry had no destination object: the run ends
DeliverNowhere(p, item) ==
  /\ queue' = p.q
  /\ ret' = [op |-> "NoDestination", item |-> item]
  /\ fatal' = TRUE
  /\ pc' = "done"
  /\ UNCHANGED <<asics, configs, reqLog>>

\* the entry is handed to the DaqNode
DeliverToDaq(p, item) ==
  /\ asics' = [asics EXCEPT ![0] = DaqReceiveByte(@, item)]
  /\ queue' = p.q
  /\ ret' = [op |-> "ReceiveByte", node |-> 0, item |-> item,
             before |-> asics[0], out |-> <<>>]
  /\ pc' = "process"
  /\ UNCHANGED <<configs, fatal, reqLog>>

\* the entry was handed to ASIC n, whose ReceiveByte returned r
DeliverToAsic(p, item, n, r) ==
  /\ asics' = [asics EXCEPT ![n] = r.a]
  /\ configs' = r.cfgs
  /\ queue' = PushAll(p.q, r.out)
  /\ fatal' = r.exc
  /\ pc' = IF r.exc THEN "done" ELSE "process"
  /\ reqLog' = IF r.a.reqID # asics[n].reqID
                 THEN [reqLog EXCEPT ![n] =
                         Append(@, [ReqID |-> r.a.reqID, state |-> r.a.state])]
                 ELSE reqLog
  /\ ret' = [op |-> "ReceiveByte", node |-> n, item |-> item,
             before |-> asics[n], out |-> r.out]

\* the popped entry is handed to its destination at the driver's time
DeliverItem(p, item) ==
  /\ popped' = Append(popped, [id |-> p.data[1], pushed |-> Len(queue.items)])
  /\ timeNow' = IF item.inTime > timeNow THEN item.inTime ELSE timeNow
  /\ IF item.asic = None THEN DeliverNowhere(p, item)
     ELSE IF item.asic[1] = 0 THEN DeliverToDaq(p, item)
     ELSE DeliverToAsic(p, item, item.asic[1],
                        ReceiveByte(asics[item.asic[1]], configs, item))

DeliverPopped(p) == DeliverItem(p, queue.items[p.data[1]])

\* pop one entry and hand it to its destination; an entry sent where the
\* sender has no neighbour has no destination object, which ends the run
Deliver ==
  /\ pc = "pop"
  /\ queue.curItem # 0
  /\ timeNow < EndTime
  /\ DeliverPopped(PopQueue(queue))
  /\ UNCHANGED <<reqs, injected, calls, qpFifo, fifoLog>>

\* the driver's working state after Process on ASIC n has returned r
ProcessStep(w, n, r) ==
  [asics |-> [w.asics EXCEPT ![n] = r.a],
   queue |-> PushAll(w.queue, r.out),
   outs |-> [w.outs EXCEPT ![n] = r.out],
   exc |-> r.exc]

\* Process(target) on the ASICs n, n + 1, ..., pushing what each returns
RECURSIVE ProcessFrom(_, _, _)
ProcessFrom(w, n, target) ==
  IF n \notin DOMAIN w.asics \/ w.exc THEN w
  ELSE ProcessFrom(ProcessStep(w, n, Process(w.asics[n], configs, target)),
                   n + 1, target)

ProcessedAll(w) ==
  /\ asics' = w.asics
  /\ queue' = w.queue
  /\ fatal' = w.exc
  /\ pc' = IF w.exc THEN "done" ELSE "pop"
  /\ ret' = [op |-> "Process", target |-> timeNow, before |-> asics,
             outs |-> w.outs]

ProcessAll ==
  /\ pc = "process"
  /\ ProcessedAll(ProcessFrom([asics |-> asics, queue |-> queue,
                               outs |-> [n \in DOMAIN asics |-> <<>>],
                               exc |-> FALSE],
                              1, timeNow))
  /\ UNCHANGED <<popped, configs, timeNow, reqs, injected, reqLog, calls, qpFifo, fifoLog>>

Tick ==
  /\ pc = "pop"
  /\ queue.curItem = 0
  /\ timeNow < EndTime
  /\ timeNow' = timeNow + DeltaT
  /\ pc' = "process"
  /\ ret' = [op |-> "Tick"]
  /\ UNCHANGED <<queue, popped, asics, configs, fatal, reqs, injected, reqLog,
                 calls, qpFifo, fifoLog>>

Finished ==
  /\ pc = "pop"
  /\ timeNow >= EndTime
  /\ pc' = "done"
  /\ ret' = [op |-> "Finished"]
  /\ UNCHANGED <<queue, popped, asics, configs, fatal, timeNow, reqs, injected,
                 reqLog, calls, qpFifo, fifoLog>>

NextMesh ==
  \/ \E n \in InjectNodes, hits \in HitLists : InjectCall(n, hits)
  \/ \E cmd \in Commands, t \in ScheduleTimes : Schedule(cmd, t)
  \/ Start
  \/ Deliver
  \/ ProcessAll
  \/ Tick
  \/ Finished

SpecMesh == InitMesh /\ [][NextMesh]_vars

\* what the DaqNode has recorded
DaqRecords == asics[0].localFifo.data
RecordsOf(n, wordType) ==
  {k \in 1 .. Len(DaqRecords) :
     /\ DaqRecords[k].wordType = wordType
     /\ DaqRecords[k].row = Some(asics[n].row)
     /\ DaqRecords[k].col = Some(asics[n].col)}
EvtEnds(n, R) == {k \in RecordsOf(n, "EVTEND") : DaqRecords[k].qbyte.data = Some(R)}
Interrogations ==
  {R \in 1 .. Len(reqs) : reqs[R].command \in {"Interrogate", "HardInterrogate"}}
\* the run has been driven to EndTime and the queue is empty
Quiescent == pc = "done" /\ ~fatal /\ queue.curItem = 0

\* no ASIC has been set up with sendRemote
NoSendRemote == \A n \in AsicNodes : ~configs[asics[n].config].SendRemote
\* an ASIC stored request id R and was left in TransmitLocal by it
EnteredLocal(n, R) ==
  \E k \in 1 .. Len(reqLog[n]) :
     reqLog[n][k].ReqID = R /\ reqLog[n][k].state = "TransmitLocal"
TotalInjected == LET Sum[k \in 0 .. Cardinality(DOMAIN injected)] ==
                       IF k = 0 THEN 0 ELSE Sum[k - 1] + injected[k - 1]
                 IN  Sum[Cardinality(DOMAIN injected)]

C5_DataBytesEqualHits ==
  (/\ Quiescent
   /\ Interrogations # {}
   /\ \A n \in AsicNodes : asics[n].remoteFifo.curSize = 0)
  => asics[0].localFifo.dataWords = TotalInjected

\* the REGREQ copies among the tuples a call returned
Rebroadcasts(out) == {k \in 1 .. Len(out) : out[k].QPByte.wordType = "REGREQ"}

\* C6: an ASIC stores a request id at most once in a run, a call returns at
\* most 3 copies of the request byte, and a REGREQ whose ReqID is the stored
\* reqID returns nothing and leaves the ASIC as it was.
C6_ReqIdStoredOnce ==
  /\ \A n \in AsicNodes : \A i, j \in 1 .. Len(reqLog[n]) :
       reqLog[n][i].ReqID = reqLog[n][j].ReqID => i = j
  /\ (ret.op = "ReceiveByte" /\ ret.node # 0) =>
       /\ Cardinality(Rebroadcasts(ret.out)) <= 3
       /\ (ret.item.QPByte.wordType = "REGREQ"
           /\ ret.item.QPByte.ReqID = ret.before.reqID)
          => (ret.out = <<>> /\ asics[ret.node] = ret.before)

\* C10: the entry the driver hands to an ASIC is never earlier than the
\* ASIC's own absTimeNow.
C10_NoEventFromThePast ==
  (ret.op = "ReceiveByte" /\ ret.node # 0) =>
     ret.item.inTime >= ret.before.absTimeNow

(***************************************************************************)
(* The ProcQueue on its own: any sequence of AddQueueItem and PopQueue on  *)
(* a queue built empty.                                                    *)
(***************************************************************************)
MaxPush == 4      \* items pushed in one run of the queue
MaxInTime == 2    \* the inTime of a pushed item is 0 .. MaxInTime

LineMesh == [rows |-> 1, cols |-> 3]

InitQueue ==
  /\ queue = EmptyQueue
  /\ popped = <<>>
  /\ ret = [op |-> "init"]
  /\ asics = BuildMesh(LineMesh, [n \in Nodes(LineMesh) |-> 0])
  /\ configs = BuildConfigs(LineMesh, NoFlags)
  /\ fatal = FALSE
  /\ timeNow = 0
  /\ pc = "queue"
  /\ reqs = <<>>
  /\ injected = [n \in Nodes(LineMesh) |-> 0]
  /\ reqLog = [n \in Nodes(LineMesh) |-> <<>>]
  /\ calls = 0
  /\ qpFifo = QPFifoInit(FifoDepth)
  /\ fifoLog = NoLog

TestByte == QPByteInit("REGREQ", None, None, None, None, None, NoReq)

AddQueueItemCall(t) ==
  /\ Len(queue.items) < MaxPush
  /\ queue' = _AddQueueItem(queue, ProcItem(Some(1), 3, TestByte, t, None))
  /\ ret' = [op |-> "AddQueueItem", val |-> Some(queue'.entries),
             length |-> Length(queue), processed |-> queue.processed]
  /\ UNCHANGED <<popped, asics, configs, fatal, timeNow, pc, reqs, injected,
                 reqLog, calls, qpFifo, fifoLog>>

Popped(r) ==
  /\ queue' = r.q
  /\ popped' = IF r.data = None THEN popped
               ELSE Append(popped, [id |-> r.data[1], pushed |-> Len(queue.items)])
  /\ ret' = [op |-> "PopQueue", val |-> r.data,
             length |-> Length(queue), processed |-> queue.processed]

PopQueueCall ==
  /\ Popped(PopQueue(queue))
  /\ UNCHANGED <<asics, configs, fatal, timeNow, pc, reqs, injected, reqLog,
                 calls, qpFifo, fifoLog>>

NextQueue ==
  \/ \E t \in 0 .. MaxInTime : AddQueueItemCall(t)
  \/ PopQueueCall

SpecQueue == InitQueue /\ [][NextQueue]_vars

InTimeOf(id) == queue.items[id].inTime
QueuedIds == {Queued(queue)[k] : k \in 1 .. Len(Queued(queue))}
PoppedIds == {popped[k].id : k \in 1 .. Len(popped)}

\* C1: PopQueue returns an entry whose inTime is at most the inTime of every
\* entry still queued, and two successive pops are non-decreasing in time
\* when no entry pushed between them lies below the first.
C1_PopReturnsEarliest ==
  /\ (ret.op = "PopQueue" /\ ret.val # None) =>
       \A k \in QueuedIds : InTimeOf(ret.val[1]) <= InTimeOf(k)
  /\ \A i \in 1 .. Len(popped) - 1 :
       (\A k \in popped[i].pushed + 1 .. popped[i + 1].pushed :
            InTimeOf(k) >= InTimeOf(popped[i].id))
       => InTimeOf(popped[i].id) <= InTimeOf(popped[i + 1].id)

\* C2: entries pushed with equal inTime leave the queue in the order in which
\* they were pushed.
C2_StableTies ==
  /\ \A i, j \in 1 .. Len(popped) :
       (i < j /\ InTimeOf(popped[i].id) = InTimeOf(popped[j].id))
       => popped[i].id < popped[j].id
  /\ \A i \in 1 .. Len(popped) : \A k \in QueuedIds :
       (InTimeOf(popped[i].id) = InTimeOf(k)) => popped[i].id < k

\* C3: the entries popped and the entries reachable from the head are exactly
\* the entries pushed, each once; Length() is the number queued; a PopQueue
\* on the empty queue returns None and leaves Length() and processed alone.
C3_NoLossNoDuplicate ==
  /\ QueuedIds \cup PoppedIds = 1 .. Len(queue.items)
  /\ Len(Queued(queue)) + Len(popped) = Len(queue.items)
  /\ Cardinality(QueuedIds) = Len(Queued(queue))
  /\ Cardinality(PoppedIds) = Len(popped)
  /\ Length(queue) = Len(Queued(queue))
  /\ queue.processed = Len(popped)
  /\ (ret.op = "PopQueue" /\ ret.val = None) =>
       /\ Length(queue) = ret.length
       /\ queue.processed = ret.processed
       /\ Length(queue) = 0

C3_Witness ==
  /\ ret.op = "PopQueue" /\ ret.val = None
  /\ Len(popped) >= 3
  /\ Len(queue.items) = Len(popped)

(***************************************************************************)
(* One ASIC and the DaqNode on their own: ASIC (0,1) of the line mesh, its *)
(* West link to the DaqNode and its East link to ASIC (0,2), under any     *)
(* sequence of calls, with times in any order.                             *)
(***************************************************************************)
MaxCalls == 3     \* calls made in one run, InjectHits apart

CallTimes == {3000, 30000}          \* delivery and send times
ProcessTimes == {30000, 120000}     \* Process targets

Request(R) ==
  QPByteInit("REGREQ", None, None, None, None, None, [NoReq EXCEPT !.ReqID = R])
RegRead(R) ==
  QPByteInit("REGREQ", None, None, None, None, None,
             [NoReq EXCEPT !.ReqID = R, !.OpRead = TRUE])
RegWrite(R) ==
  QPByteInit("REGREQ", None, None, None, None, None,
             [NoReq EXCEPT !.ReqID = R, !.OpWrite = TRUE])
RemoteData == QPByteInit("DATA", Some(0), Some(2), Some(351), Some(<<3>>),
                         Some(2100), NoReq)

\* the queue entries handed to the ASIC
TestItems ==
  {ProcItem(Some(1), 3, Request(R), 3000, Some(c)) :
     R \in {1, 2}, c \in {"Interrogate", "HardInterrogate"}}
  \cup {ProcItem(Some(1), 3, RegRead(1), 3000, None),
        ProcItem(Some(1), 3, RegWrite(2), 3000, None),
        ProcItem(Some(1), 3, [Request(2) EXCEPT !.Dest = TRUE, !.XDest = Some(0),
                                                !.YDest = Some(2)],
                 3000, Some("Interrogate")),
        ProcItem(Some(1), 1, RemoteData, 30000, None)}

\* the (absTime, dir, isTx) arguments of the UpdateTime calls
UpdateCalls == {<<30000, None, FALSE>>, <<3000, Some(3), TRUE>>,
                <<3000, Some(3), FALSE>>, <<3001, None, FALSE>>}

InitAsic ==
  \E flags \in FlagChoices :
    /\ asics = BuildMesh(LineMesh, [n \in Nodes(LineMesh) |-> IF n = 0 THEN 0 ELSE -3])
    /\ configs = BuildConfigs(LineMesh, flags)
    /\ queue = EmptyQueue
    /\ popped = <<>>
    /\ ret = [op |-> "init"]
    /\ fatal = FALSE
    /\ timeNow = 0
    /\ pc = "calls"
    /\ reqs = <<>>
    /\ injected = [n \in Nodes(LineMesh) |-> 0]
    /\ reqLog = [n \in Nodes(LineMesh) |-> <<>>]
    /\ calls = 0
    /\ qpFifo = QPFifoInit(FifoDepth)
    /\ fifoLog = NoLog

ReceivedByte(item, r) ==
  /\ asics' = [asics EXCEPT ![1] = r.a]
  /\ configs' = r.cfgs
  /\ fatal' = r.exc
  /\ reqLog' = IF r.a.reqID # asics[1].reqID
                 THEN [reqLog EXCEPT ![1] =
                         Append(@, [ReqID |-> r.a.reqID, state |-> r.a.state])]
                 ELSE reqLog
  /\ ret' = [op |-> "ReceiveByte", node |-> 1, item |-> item,
             before |-> asics[1], out |-> r.out]

ReceiveByteCall(item) ==
  /\ ~fatal /\ calls < MaxCalls
  /\ ReceivedByte(item, ReceiveByte(asics[1], configs, item))
  /\ calls' = calls + 1
  /\ UNCHANGED <<queue, popped, timeNow, pc, reqs, injected, qpFifo, fifoLog>>

DaqReceivedByte(item) ==
  /\ asics' = [asics EXCEPT ![0] = DaqReceiveByte(@, item)]
  /\ ret' = [op |-> "ReceiveByte", node |-> 0, item |-> item,
             before |-> asics[0], out |-> <<>>]

DaqReceiveByteCall(t) ==
  /\ ~fatal /\ calls < MaxCalls
  /\ DaqReceivedByte(ProcItem(Some(0), 1, RemoteData, t, None))
  /\ calls' = calls + 1
  /\ UNCHANGED <<queue, popped, configs, fatal, timeNow, pc, reqs, injected,
                 reqLog, qpFifo, fifoLog>>

Processed(t, r) ==
  /\ asics' = [asics EXCEPT ![1] = r.a]
  /\ fatal' = r.exc
  /\ ret' = [op |-> "Process", target |-> t, before |-> asics,
             outs |-> [n \in DOMAIN asics |-> IF n = 1 THEN r.out ELSE <<>>]]

ProcessCall(t) ==
  /\ ~fatal /\ calls < MaxCalls
  /\ Processed(t, Process(asics[1], configs, t))
  /\ calls' = calls + 1
  /\ UNCHANGED <<queue, popped, configs, timeNow, pc, reqs, injected, reqLog,
                 qpFifo, fifoLog>>

UpdatedTime(t, dir, isTx, u) ==
  /\ asics' = [asics EXCEPT ![1] = u.a]
  /\ fatal' = u.exc
  /\ ret' = [op |-> "UpdateTime", node |-> 1, absTime |-> t, dir |-> dir,
             isTx |-> isTx, before |-> asics[1], transT |-> u.transT]

UpdateTimeCall(t, dir, isTx) ==
  /\ ~fatal /\ calls < MaxCalls
  /\ UpdatedTime(t, dir, isTx, UpdateTime(asics[1], t, dir, isTx))
  /\ calls' = calls + 1
  /\ UNCHANGED <<queue, popped, configs, timeNow, pc, reqs, injected, reqLog,
                 qpFifo, fifoLog>>

Sent(d, T, r) ==
  /\ asics' = [asics EXCEPT ![1].connections[d] = r.conn]
  /\ ret' = [op |-> "send", node |-> 1, dir |-> d, T |-> T,
             before |-> asics[1].connections[d], busy |-> r.busy]

\* connections[d].send(T) on the ASIC
SendCall(d, T) ==
  /\ ~fatal /\ calls < MaxCalls
  /\ Sent(d, T, send(asics[1].connections[d], T))
  /\ calls' = calls + 1
  /\ UNCHANGED <<queue, popped, configs, fatal, timeNow, pc, reqs, injected,
                 reqLog, qpFifo, fifoLog>>

InjectHitsCall(hits) ==
  /\ ~fatal
  /\ injected[1] = 0
  /\ asics' = [asics EXCEPT ![1] = InjectHits(@, hits)]
  /\ injected' = [injected EXCEPT ![1] = Len(hits)]
  /\ ret' = [op |-> "InjectHits", node |-> 1]
  /\ UNCHANGED <<queue, popped, configs, fatal, timeNow, pc, reqs, reqLog,
                 calls, qpFifo, fifoLog>>

NextAsic ==
  \/ \E item \in TestItems : ReceiveByteCall(item)
  \/ \E t \in CallTimes : DaqReceiveByteCall(t)
  \/ \E t \in ProcessTimes : ProcessCall(t)
  \/ \E u \in UpdateCalls : UpdateTimeCall(u[1], u[2], u[3])
  \/ \E T \in CallTimes : SendCall(3, T)
  \/ \E hits \in HitLists : InjectHitsCall(hits)

SpecAsic == InitAsic /\ [][NextAsic]_vars

\* C7: _absTimeNow of an ASIC and of the DaqNode never decreases, whatever
\* call is made and whatever time it is given.
C7_AbsTimeNowMonotone ==
  [][\A n \in DOMAIN asics : asics'[n].absTimeNow >= asics[n].absTimeNow]_vars

\* the DaqNode was handed a byte earlier than its own clock, and kept its clock
C7_Witness ==
  /\ ret.op = "ReceiveByte" /\ ret.node = 0
  /\ ret.item.inTime < ret.before.absTimeNow
  /\ asics[0].absTimeNow = ret.before.absTimeNow

\* C8: txBusy of a link never decreases; it changes only to a time T with
\* T - transTime not below its previous value, and a send reported busy
\* leaves it unchanged.
C8_TxBusyMonotone ==
  /\ [][\A n \in DOMAIN asics : \A d \in Dirs :
          LET old == asics[n].connections[d].txBusy
              new == asics'[n].connections[d].txBusy
          IN  /\ new >= old
              /\ new # old => new - asics[n].connections[d].transTime >= old]_vars
  /\ []((ret.op = "send" /\ ret.busy) =>
          asics[ret.node].connections[ret.dir] = ret.before)

\* a send was reported busy on a link that an earlier send had been accepted on
C8_Witness ==
  /\ ret.op = "send" /\ ret.busy
  /\ ret.before.txBusy > ret.T - ret.before.transTime
  /\ ret.before.txBusy > 0

\* the transferTicks of a byte with H set bits
EndeavorTicks(b) ==
  LET H == PopCount(b.channelMask[1]) + PopCount(b.timeStamp[1])
           + PopCount(b.originCol[1]) + PopCount(b.originRow[1])
           + PopCount(WordValue(b.wordType))
  IN  24 * H + 8 * (64 - H) + 63 * 16 + 40

\* the bytes an ASIC holds in its local FIFO and the bytes the last call emitted
LocalBytes == UNION {{asics[n].localFifo.data[k] : k \in 1 .. Len(asics[n].localFifo.data)} :
                       n \in DOMAIN asics \ {0}}
EmittedBytes ==
  IF ret.op = "ReceiveByte" THEN {ret.out[k].QPByte : k \in 1 .. Len(ret.out)}
  ELSE IF ret.op = "Process"
    THEN UNION {{ret.outs[n][k].QPByte : k \in 1 .. Len(ret.outs[n])} : n \in DOMAIN ret.outs}
  ELSE {}

\* C9: every DATA byte an ASIC writes to its local FIFO or emits has
\* transferTicks = 24 H + 8 (64 - H) + 63 * 16 + 40 for the H set bits of its
\* channelMask, timeStamp, originCol, originRow and wordType.
C9_DataTransferTicks ==
  \A b \in LocalBytes \cup EmittedBytes :
     b.wordType = "DATA" => b.transferTicks = EndeavorTicks(b)

\* the tuples the last call returned, each with the node that emitted it
EmittedEvents ==
  IF ret.op = "ReceiveByte"
    THEN {<<ret.node, ret.out[k]>> : k \in 1 .. Len(ret.out)}
  ELSE IF ret.op = "Process"
    THEN UNION {{<<n, ret.outs[n][k]>> : k \in 1 .. Len(ret.outs[n])} :
                  n \in DOMAIN ret.outs}
  ELSE {}

\* C11: every tuple ReceiveByte or Process returns has a delivery time that
\* is not earlier than the emitting ASIC's absTimeNow when the call returns.
C11_DeliveryNotBeforeNow ==
  \A e \in EmittedEvents : e[2].inTime >= asics[e[1]].absTimeNow

\* the tuples of out from index k on that left through link i start their
\* transmission no earlier than the delivery time of the tuple sent before
\* them on that link; prev is that time, 0 when nothing was sent before
RECURSIVE NoOverlapFrom(_, _, _, _, _)
NoOverlapFrom(prev, out, k, i, tOsc) ==
  IF k > Len(out) THEN TRUE
  ELSE IF Opposite(out[k].dir) # i THEN NoOverlapFrom(prev, out, k + 1, i, tOsc)
  ELSE /\ (prev = 0
           \/ out[k].inTime - out[k].QPByte.transferTicks * tOsc >= prev)
       /\ NoOverlapFrom(out[k].inTime, out, k + 1, i, tOsc)

\* C12: two consecutive tuples an ASIC emits on one link do not overlap: the
\* later one's delivery time minus its byte's transferTicks * tOsc is not
\* earlier than the earlier one's delivery time.  The delivery time of the
\* last tuple sent on a link before the call is the link's txBusy.
C12_TxWindowsDisjoint ==
  /\ (ret.op = "ReceiveByte" /\ ret.node # 0) =>
       \A i \in Dirs :
          NoOverlapFrom(ret.before.connections[i].txBusy, ret.out, 1, i,
                        asics[ret.node].tOsc)
  /\ ret.op = "Process" =>
       \A n \in DOMAIN ret.outs \ {0} : \A i \in Dirs :
          NoOverlapFrom(ret.before[n].connections[i].txBusy, ret.outs[n], 1, i,
                        asics[n].tOsc)

(***************************************************************************)
(* A QPFifo on its own: QPFifo(maxDepth = FifoMaxDepth) under any sequence *)
(* of Write and Read calls.                                                *)
(***************************************************************************)
FifoMaxDepth == 2     \* the maxDepth the QPFifo is built with
MaxWrites == 4        \* Write calls made in one run

FifoBytes == {Request(1), Request(2), RemoteData}

InitFifo ==
  /\ qpFifo = QPFifoInit(FifoMaxDepth)
  /\ fifoLog = NoLog
  /\ queue = EmptyQueue
  /\ popped = <<>>
  /\ ret = [op |-> "init"]
  /\ asics = BuildMesh(LineMesh, [n \in Nodes(LineMesh) |-> 0])
  /\ configs = BuildConfigs(LineMesh, NoFlags)
  /\ fatal = FALSE
  /\ timeNow = 0
  /\ pc = "fifo"
  /\ reqs = <<>>
  /\ injected = [n \in Nodes(LineMesh) |-> 0]
  /\ reqLog = [n \in Nodes(LineMesh) |-> <<>>]
  /\ calls = 0

WriteCall(byte) ==
  /\ Len(fifoLog.written) < MaxWrites
  /\ qpFifo' = FifoWrite(qpFifo, byte)
  /\ fifoLog' = [fifoLog EXCEPT !.written = Append(@, byte)]
  /\ ret' = [op |-> "Write", val |-> Some(qpFifo'.curSize), before |-> qpFifo]
  /\ UNCHANGED <<queue, popped, asics, configs, fatal, timeNow, pc, reqs,
                 injected, reqLog, calls>>

HasRead(r) ==
  /\ qpFifo' = r.fifo
  /\ fifoLog' = IF r.byte = None THEN fifoLog
                ELSE [fifoLog EXCEPT !.read = Append(@, r.byte[1])]
  /\ ret' = [op |-> "Read", val |-> r.byte, before |-> qpFifo]

ReadCall ==
  /\ HasRead(FifoRead(qpFifo))
  /\ UNCHANGED <<queue, popped, asics, configs, fatal, timeNow, pc, reqs,
                 injected, reqLog, calls>>

NextFifo ==
  \/ \E byte \in FifoBytes : WriteCall(byte)
  \/ ReadCall

SpecFifo == InitFifo /\ [][NextFifo]_vars

\* C13: curSize <= maxDepth in every reachable state of a QPFifo.
C13_CurSizeWithinDepth == qpFifo.curSize <= qpFifo.maxDepth

\* C13 as the code has it: curSize is the number of bytes written and not
\* yet read, whatever maxDepth is; it is above maxDepth only with the full
\* flag set, so curSize <= maxDepth holds wherever full is false.
C13_FullWhenPastDepth ==
  /\ qpFifo.curSize = Len(fifoLog.written) - Len(fifoLog.read)
  /\ qpFifo.curSize = Len(qpFifo.data)
  /\ qpFifo.curSize > qpFifo.maxDepth => qpFifo.full
  /\ ~qpFifo.full => qpFifo.curSize <= qpFifo.maxDepth

\* a Write has taken the QPFifo past its maxDepth
C13_Witness ==
  /\ ret.op = "Write"
  /\ qpFifo.curSize > qpFifo.maxDepth
  /\ qpFifo.full

\* C14: no byte is rejected or lost: the bytes Read has returned, followed
\* by the bytes held, are the bytes written, in order, also past maxDepth;
\* Read on an empty QPFifo returns None and changes nothing; full becomes
\* true on the Write that takes curSize above maxDepth and no Read clears it.
C14_FifoOrderNoLoss ==
  /\ fifoLog.read \o qpFifo.data = fifoLog.written
  /\ qpFifo.totalWrites = Len(fifoLog.written)
  /\ (ret.op = "Read" /\ ret.before.curSize = 0) =>
        (ret.val = None /\ qpFifo = ret.before)
  /\ (ret.op = "Read" /\ ret.before.curSize > 0) =>
        ret.val = Some(Head(ret.before.data))
  /\ ret.op = "Read" => qpFifo.full = ret.before.full
  /\ ret.op = "Write" =>
        /\ ret.val = Some(ret.before.curSize + 1)
        /\ qpFifo.full = (ret.before.full \/ qpFifo.curSize > qpFifo.maxDepth)

\* more bytes than maxDepth were written, all of them have been read back
\* and a further Read has returned None; full is still set
C14_Witness ==
  /\ ret.op = "Read" /\ ret.val = None
  /\ Len(fifoLog.written) > qpFifo.maxDepth
  /\ qpFifo.maxSize = Len(fifoLog.written)
  /\ fifoLog.read = fifoLog.written
  /\ qpFifo.full

\* the hits injected at node n, in ascending time order
InjectedHits(n) ==
  IF injected[n] = 0 THEN <<>>
  ELSE SortPairs(CHOOSE h \in HitLists : Len(h) = injected[n])

\* the records the DaqNode holds from node n, in the order it recorded them
RecordSeq(n) ==
  SelectSeq(DaqRecords, LAMBDA d : /\ d.row = Some(asics[n].row)
                                   /\ d.col = Some(asics[n].col))

\* node n is wired to the DaqNode
NextToDaq(n) == \E d \in Dirs : asics[0].connections[d].asic = Some(n)

\* the run had one request, a HardInterrogate, and is quiescent
HardInterrogated ==
  Quiescent /\ Len(reqs) = 1 /\ reqs[1].command = "HardInterrogate"

\* C15: after a HardInterrogate the DaqNode holds, from an ASIC next to it
\* that held hits, one DATA byte per hit in ascending hit-time order, each
\* with the hit's channel mask and timeStamp = CalcTicks(hit time), and then
\* exactly one EVTEND byte, with no DATA byte after it.
C15_DataThenEvtEnd ==
  HardInterrogated =>
    \A n \in AsicNodes :
       (NextToDaq(n) /\ injected[n] > 0) =>
          /\ Len(RecordSeq(n)) = injected[n] + 1
          /\ \A k \in 1 .. injected[n] :
                /\ RecordSeq(n)[k].wordType = "DATA"
                /\ RecordSeq(n)[k].qbyte.channelMask
                     = Some(ChannelBits(InjectedHits(n)[k][2]))
                /\ RecordSeq(n)[k].qbyte.timeStamp
                     = Some(CalcTicks(asics[n], InjectedHits(n)[k][1]))
          /\ RecordSeq(n)[injected[n] + 1].wordType = "EVTEND"
          /\ RecordSeq(n)[injected[n] + 1].qbyte.data = Some(1)

\* the driver moves on: set-up ends, and the loop goes from popping to
\* processing and back until the run is done
DriverAdvances ==
  /\ pc # "done"
  /\ pc' \in {"setup", "pop", "process", "done"}
  /\ pc' # pc

\* the driver is a sequential program that always takes its next step
SpecMeshFair == SpecMesh /\ WF_pc(DriverAdvances)

\* no REGREQ entry is waiting in the queue
NoRegReqQueued ==
  \A k \in 1 .. Len(Queued(queue)) :
     queue.items[Queued(queue)[k]].QPByte.wordType # "REGREQ"

\* every ASIC of the mesh has stored request id R
AllStored(R) == \A n \in AsicNodes : asics[n].reqID = R

\* C16: a single broadcast REGREQ terminates: an ASIC stores its id once
\* and rebroadcasts at most 3 copies then, a later visit returns nothing,
\* and the run reaches a state where every ASIC has stored the id and no
\* REGREQ entry is left in the queue.
C16_BroadcastTerminates ==
  /\ [](Len(reqs) = 1 =>
          /\ \A n \in AsicNodes : Len(reqLog[n]) <= 1
          /\ (ret.op = "ReceiveByte" /\ ret.node # 0
              /\ ret.item.QPByte.wordType = "REGREQ") =>
                IF ret.before.reqID = ret.item.QPByte.ReqID
                  THEN ret.out = <<>>
                  ELSE Cardinality(Rebroadcasts(ret.out)) <= 3)
  /\ (Len(reqs) = 1 /\ pc # "setup") ~> (AllStored(1) /\ NoRegReqQueued)

\* in the 2x2 mesh the one request has reached every ASIC, the last copy
\* was dropped by an ASIC that had stored the id, and no copy is queued
C16_Witness ==
  /\ Len(reqs) = 1
  /\ Cardinality(AsicNodes) = 3
  /\ AllStored(1) /\ NoRegReqQueued
  /\ ret.op = "ReceiveByte" /\ ret.node # 0
  /\ ret.item.QPByte.wordType = "REGREQ"
  /\ ret.before.reqID = 1 /\ ret.out = <<>>

(***************************************************************************)
(* Push mode: the 1x2 mesh, ASIC (0,1) with EnablePush set, hits injected  *)
(* and no request ever scheduled.  DirMask is what the constructor leaves  *)
(* (North) or has been set to West by hand.  The driver calls Process      *)
(* every PushDeltaT up to PushEnd and hands over every queued entry.       *)
(***************************************************************************)
PushMesh == [rows |-> 1, cols |-> 2]
PushFlags == [EnablePush |-> TRUE, SendRemote |-> FALSE]
PushRoutes == {0, 3}
PushHitLists == {<< <<300, <<3>>>> >>, << <<300, <<1, 3, 8>>>> >>}
PushDeltaT == 150     \* the driver's time step
PushEnd == 600        \* the time the run is driven to

InitPush ==
  \E ph \in Phases, route \in PushRoutes :
    /\ asics = BuildMesh(PushMesh, [n \in Nodes(PushMesh) |-> IF n = 0 THEN 0 ELSE ph])
    /\ configs = [BuildConfigs(PushMesh, PushFlags)
                    EXCEPT ![NodeConfig(1)].DirMask = route]
    /\ queue = EmptyQueue
    /\ popped = <<>>
    /\ ret = [op |-> "init"]
    /\ fatal = FALSE
    /\ timeNow = 0
    /\ pc = "setup"
    /\ reqs = <<>>
    /\ injected = [n \in Nodes(PushMesh) |-> 0]
    /\ reqLog = [n \in Nodes(PushMesh) |-> <<>>]
    /\ calls = 0
    /\ qpFifo = QPFifoInit(FifoDepth)
    /\ fifoLog = NoLog

PushTick ==
  /\ pc = "pop"
  /\ queue.curItem = 0
  /\ timeNow < PushEnd
  /\ timeNow' = timeNow + PushDeltaT
  /\ pc' = "process"
  /\ ret' = [op |-> "Tick"]
  /\ UNCHANGED <<queue, popped, asics, configs, fatal, reqs, injected, reqLog,
                 calls, qpFifo, fifoLog>>

PushFinished ==
  /\ pc = "pop"
  /\ queue.curItem = 0
  /\ timeNow >= PushEnd
  /\ pc' = "done"
  /\ ret' = [op |-> "Finished"]
  /\ UNCHANGED <<queue, popped, asics, configs, fatal, timeNow, reqs, injected,
                 reqLog, calls, qpFifo, fifoLog>>

NextPush ==
  \/ \E hits \in PushHitLists : InjectCall(1, hits)
  \/ Start
  \/ Deliver
  \/ ProcessAll
  \/ PushTick
  \/ PushFinished

SpecPush == InitPush /\ [][NextPush]_vars

\* C17: with EnablePush set on ASIC (0,1) of the 1x2 mesh, one hit injected
\* at t = 1e-6 and Process called up to t = 2e-6, the hit's DATA byte is
\* recorded by the DaqNode although no REGREQ was ever sent.
C17_PushDelivers ==
  (pc = "done" /\ injected[1] = 1 /\ reqs = <<>>) =>
     /\ asics[0].localFifo.dataWords = 1
     /\ Len(RecordSeq(1)) >= 1
     /\ RecordSeq(1)[1].wordType = "DATA"
     /\ RecordSeq(1)[1].qbyte.data = Some(300)

(***************************************************************************)
(* The DaqNode on its own: ReceiveByte with a byte of any word type and    *)
(* Process, with times in any order.                                       *)
(***************************************************************************)
MaxDaqCalls == 4      \* calls made on the DaqNode in one run

EndByte == QPByteInit("EVTEND", Some(0), Some(1), Some(501), None, Some(1), NoReq)
RespByte == QPByteInit("REGRESP", Some(0), Some(1), None, None, None, NoReq)
DaqBytes == {RemoteData, EndByte, RespByte, Request(1)}

InitDaq ==
  /\ asics = BuildMesh(LineMesh, [n \in Nodes(LineMesh) |-> 0])
  /\ configs = BuildConfigs(LineMesh, NoFlags)
  /\ queue = EmptyQueue
  /\ popped = <<>>
  /\ ret = [op |-> "init"]
  /\ fatal = FALSE
  /\ timeNow = 0
  /\ pc = "daq"
  /\ reqs = <<>>
  /\ injected = [n \in Nodes(LineMesh) |-> 0]
  /\ reqLog = [n \in Nodes(LineMesh) |-> <<>>]
  /\ calls = 0
  /\ qpFifo = QPFifoInit(FifoDepth)
  /\ fifoLog = NoLog

\* DaqNode.ReceiveByte of a byte arriving from the East at time t
DaqReceiveAnyCall(byte, t) ==
  /\ calls < MaxDaqCalls
  /\ DaqReceivedByte(ProcItem(Some(0), 1, byte, t, None))
  /\ calls' = calls + 1
  /\ UNCHANGED <<queue, popped, configs, fatal, timeNow, pc, reqs, injected,
                 reqLog, qpFifo, fifoLog>>

DaqProcessed(t, r) ==
  /\ asics' = [asics EXCEPT ![0] = r.a]
  /\ ret' = [op |-> "Process", target |-> t, before |-> asics,
             outs |-> [n \in DOMAIN asics |-> IF n = 0 THEN r.out ELSE <<>>]]

\* DaqNode.Process(t)
DaqProcessCall(t) ==
  /\ calls < MaxDaqCalls
  /\ DaqProcessed(t, Process(asics[0], configs, t))
  /\ calls' = calls + 1
  /\ UNCHANGED <<queue, popped, configs, fatal, timeNow, pc, reqs, injected,
                 reqLog, qpFifo, fifoLog>>

NextDaq ==
  \/ \E byte \in DaqBytes, t \in CallTimes : DaqReceiveAnyCall(byte, t)
  \/ \E t \in ProcessTimes : DaqProcessCall(t)

SpecDaq == InitDaq /\ [][NextDaq]_vars

\* the four per-wordType tallies of a DaqFifo, summed
Tallies(f) == f.dataWords + f.endWords + f.reqWords + f.respWords

\* C18: DaqNode.ReceiveByte appends one DaqData record for the byte, of any
\* word type, adds one to exactly one tally (the four sum to totalWrites),
\* adds the byte's origin to received_asics, moves absTimeNow to the
\* delivery time when that is later, and returns nothing; DaqNode.Process
\* returns nothing and changes nothing.
C18_DaqIsSink ==
  /\ Tallies(asics[0].localFifo) = asics[0].localFifo.totalWrites
  /\ (ret.op = "ReceiveByte" /\ ret.node = 0) =>
       /\ asics[0].localFifo.data =
            Append(ret.before.localFifo.data,
                   DaqData(asics[0].relTicksNow, ret.item.QPByte.wordType,
                           ret.item.QPByte.originRow, ret.item.QPByte.originCol,
                           ret.item.QPByte))
       /\ Tallies(asics[0].localFifo) = Tallies(ret.before.localFifo) + 1
       /\ asics[0].localFifo.dataWords >= ret.before.localFifo.dataWords
       /\ asics[0].localFifo.endWords >= ret.before.localFifo.endWords
       /\ asics[0].localFifo.reqWords >= ret.before.localFifo.reqWords
       /\ asics[0].localFifo.respWords >= ret.before.localFifo.respWords
       /\ asics[0].localFifo.totalWrites = ret.before.localFifo.totalWrites + 1
       /\ asics[0].received_asics =
            ret.before.received_asics
              \cup {<<ret.item.QPByte.originRow, ret.item.QPByte.originCol>>}
       /\ asics[0].absTimeNow =
            (IF ret.item.inTime > ret.before.absTimeNow
               THEN ret.item.inTime ELSE ret.before.absTimeNow)
       /\ ret.out = <<>>
  /\ ret.op = "Process" =>
       (asics[0] = ret.before[0] /\ ret.outs[0] = <<>>)

\* the DaqNode has recorded a byte of each word type, the last one handed
\* over earlier than the DaqNode's clock
C18_Witness ==
  /\ ret.op = "ReceiveByte" /\ ret.node = 0
  /\ ret.item.inTime < ret.before.absTimeNow
  /\ asics[0].localFifo.dataWords = 1
  /\ asics[0].localFifo.endWords = 1
  /\ asics[0].localFifo.reqWords = 1
  /\ asics[0].localFifo.respWords = 1

\* the ReceiveByte call just made handed the ASIC a REGREQ with a new ReqID,
\* broadcast, neither OpRead nor OpWrite, with an interrogation command,
\* while the ASIC was Idle
IdleInterrogated ==
  /\ ret.op = "ReceiveByte" /\ ret.node = 1
  /\ ret.before.state = "Idle"
  /\ ret.before.connections[ret.item.dir].asic # None
  /\ ret.item.QPByte.wordType = "REGREQ"
  /\ ret.item.QPByte.ReqID # ret.before.reqID
  /\ ~ret.item.QPByte.Dest
  /\ ~ret.item.QPByte.OpRead /\ ~ret.item.QPByte.OpWrite
  /\ ret.item.command \in {Some("Interrogate"), Some("HardInterrogate")}

\* the hits of b with index 1 .. n, as the DATA bytes _ReadHits writes
HitBytes(b, n) == [k \in 1 .. n |-> ReadHitByte(b, b.times[k], b.channels[k])]

C20_FinishLeftByEvtEnd ==
  [][(asics[1].state = "Finish" /\ asics'[1].state # "Finish") =>
       /\ asics'[1].state = "TransmitRemote"
       /\ ret'.op = "Process"
       /\ Len(ret'.outs[1]) = 1
       /\ ret'.outs[1][1].QPByte.wordType = "EVTEND"
       /\ ret'.outs[1][1].QPByte.timeStamp = Some(asics[1].intTick)
       /\ ret'.outs[1][1].QPByte.data = Some(asics[1].intID)
       /\ ret'.outs[1][1].asic =
            asics[1].connections[configs[asics[1].config].DirMask].asic
       /\ asics'[1].timeoutStart = asics'[1].absTimeNow]_vars

\* C21: the ASIC leaves TransmitLocal only to Finish and only with its local
\* FIFO empty, whatever ReceiveByte or Process call is made.
C21_LocalLeftWhenDrained ==
  [][(asics[1].state = "TransmitLocal" /\ asics'[1].state # "TransmitLocal") =>
       /\ asics'[1].state = "Finish"
       /\ asics'[1].localFifo.curSize = 0]_vars

(***************************************************************************)
(* The drain cycle of one ASIC: ASIC (0,1) of the line mesh takes an       *)
(* interrogation, bytes of ASIC (0,2) for its remote FIFO, and Process     *)
(* calls.  fifoLog.written keeps the entries whose byte went into the      *)
(* remote FIFO.                                                            *)
(***************************************************************************)
MaxDwellCalls == 4    \* ReceiveByte and Process calls in one run
DrainStep == 60000    \* the Process targets of the drain grow by this much
DrainEnd == 600000    \* last Process target of the drain

DwellItems ==
  {ProcItem(Some(1), 3, Request(1), 3000, Some(c)) :
     c \in {"Interrogate", "HardInterrogate"}}
  \cup {ProcItem(Some(1), 1, RemoteData, t, None) : t \in {30000, 60000}}

DwellTargets == {30000, 120000, 240000}

InitDwell ==
  \E flags \in [EnablePush : BOOLEAN, SendRemote : BOOLEAN], to \in {0, AsicTimeout} :
    /\ asics = BuildMesh(LineMesh, [n \in Nodes(LineMesh) |-> IF n = 0 THEN 0 ELSE -3])
    /\ configs = [BuildConfigs(LineMesh, flags) EXCEPT ![NodeConfig(1)].timeout = to]
    /\ queue = EmptyQueue
    /\ popped = <<>>
    /\ ret = [op |-> "init"]
    /\ fatal = FALSE
    /\ timeNow = 0
    /\ pc = "dwell"
    /\ reqs = <<>>
    /\ injected = [n \in Nodes(LineMesh) |-> 0]
    /\ reqLog = [n \in Nodes(LineMesh) |-> <<>>]
    /\ calls = 0
    /\ qpFifo = QPFifoInit(FifoDepth)
    /\ fifoLog = NoLog

DwellReceive(item) ==
  /\ ~fatal /\ calls < MaxDwellCalls
  /\ ReceivedByte(item, ReceiveByte(asics[1], configs, item))
  /\ fifoLog' = IF item.QPByte.wordType # "REGREQ"
                  THEN [fifoLog EXCEPT !.written = Append(@, item)]
                  ELSE fifoLog
  /\ calls' = calls + 1
  /\ UNCHANGED <<queue, popped, timeNow, pc, reqs, injected, qpFifo>>

DwellProcess(t) ==
  /\ ~fatal /\ calls < MaxDwellCalls
  /\ Processed(t, Process(asics[1], configs, t))
  /\ calls' = calls + 1
  /\ UNCHANGED <<queue, popped, configs, timeNow, pc, reqs, injected, reqLog,
                 qpFifo, fifoLog>>

\* from here on nothing is delivered to the ASIC: only Process is called
StartDrain ==
  /\ pc = "dwell" /\ ~fatal
  /\ pc' = "drain"
  /\ calls' = MaxDwellCalls
  /\ UNCHANGED <<asics, configs, queue, popped, ret, fatal, timeNow, reqs,
                 injected, reqLog, qpFifo, fifoLog>>

\* Process with the next, later, target time
DrainProcess ==
  /\ pc = "drain" /\ ~fatal /\ timeNow < DrainEnd
  /\ timeNow' = timeNow + DrainStep
  /\ Processed(timeNow + DrainStep, Process(asics[1], configs, timeNow + DrainStep))
  /\ UNCHANGED <<queue, popped, configs, pc, reqs, injected, reqLog, calls,
                 qpFifo, fifoLog>>

NextDwell ==
  \/ \E item \in DwellItems : DwellReceive(item)
  \/ \E t \in DwellTargets : DwellProcess(t)
  \/ \E hits \in HitLists : pc = "dwell" /\ InjectHitsCall(hits)
  \/ StartDrain
  \/ DrainProcess

SpecDwell == InitDwell /\ [][NextDwell]_vars

\* the drain takes its next Process call
DrainAdvances ==
  /\ pc = "drain" /\ ~fatal /\ timeNow < DrainEnd
  /\ timeNow' = timeNow + DrainStep

\* Process keeps being called
SpecDwellFair == SpecDwell /\ WF_timeNow(DrainAdvances)

\* the later of the entry into TransmitRemote and the delivery of the last
\* byte written to the remote FIFO
DwellStart ==
  IF fifoLog.written # <<>>
       /\ fifoLog.written[Len(fifoLog.written)].inTime > asics[1].timeoutStart
    THEN fifoLog.written[Len(fifoLog.written)].inTime
    ELSE asics[1].timeoutStart

\* C22: Process takes the ASIC from TransmitRemote to Idle, with sendRemote
\* unset, only when absTimeNow is more than timeout * tOsc past the later of
\* the entry into TransmitRemote and the last write to the remote FIFO; with
\* sendRemote set, when the remote FIFO is empty.
C22_IdleAfterDwell ==
  [][(ret'.op = "Process" /\ asics[1].state = "TransmitRemote"
        /\ asics'[1].state = "Idle") =>
       IF configs[asics[1].config].SendRemote
         THEN asics'[1].remoteFifo.curSize = 0
         ELSE asics'[1].absTimeNow - DwellStart
                > configs[asics[1].config].timeout * asics[1].tOsc]_vars

\* C23: once nothing more is delivered and Process is called with growing
\* target times, an ASIC in TransmitLocal, Finish, TransmitRemote or
\* TransmitRemoteFull comes back to Idle, for every setting of enablePush,
\* sendRemote and the timeout.
C23_DrainReachesIdle ==
  (pc = "drain" /\ asics[1].state \in {"TransmitLocal", "Finish", "TransmitRemote",
                                        "TransmitRemoteFull"})
    ~> (asics[1].state = "Idle")

\* a drain has emptied the local FIFO of its two hits and its last Process
\* call has brought the ASIC from TransmitRemote back to Idle
C23_Witness ==
  /\ pc = "drain" /\ timeNow > 0
  /\ ret.op = "Process"
  /\ ret.before[1].state = "TransmitRemote"
  /\ asics[1].state = "Idle"
  /\ asics[1].localFifo.totalWrites = 2
  /\ asics[1].localFifo.curSize = 0

\* the ReceiveByte call just made handed an ASIC a REGREQ with a new ReqID
\* over a link that exists
AcceptedRequest ==
  /\ ret.op = "ReceiveByte" /\ ret.node # 0
  /\ ret.item.QPByte.wordType = "REGREQ"
  /\ ret.before.connections[ret.item.dir].asic # None
  /\ ret.item.QPByte.ReqID # ret.before.reqID

\* the completion time the broadcast loop asks for
BroadcastTime ==
  ret.item.inTime + ret.item.QPByte.transferTicks * ret.before.tOsc

\* C24: a REGREQ that passes deduplication, addressed to this ASIC or not and
\* whatever its operation, is returned once for each present neighbour other
\* than the ingress one and never for the ingress link; each copy is the
\* byte itself, tagged with the direction opposite to its egress link and
\* with the command, and is delivered at inTime + transferTicks * tOsc
\* unless the link was busy, which defers it.
C24_Rebroadcast ==
  AcceptedRequest =>
    /\ ~fatal
    /\ \A i \in Dirs :
         Cardinality({k \in Rebroadcasts(ret.out) :
                        /\ ret.out[k].dir = Opposite(i)
                        /\ ret.out[k].asic = ret.before.connections[i].asic})
           = (IF i # ret.item.dir /\ ret.before.connections[i].asic # None
                THEN 1 ELSE 0)
    /\ Cardinality(Rebroadcasts(ret.out))
         = Cardinality({i \in Dirs : i # ret.item.dir
                                       /\ ret.before.connections[i].asic # None})
    /\ \A k \in Rebroadcasts(ret.out) :
         /\ ret.out[k].QPByte = ret.item.QPByte
         /\ ret.out[k].command = ret.item.command
         /\ ret.out[k].inTime >= BroadcastTime
         /\ (ret.before.connections[Opposite(ret.out[k].dir)].txBusy
               <= BroadcastTime
                    - ret.before.connections[Opposite(ret.out[k].dir)].transTime
             /\ Cardinality(Rebroadcasts(ret.out)) = Len(ret.out))
              => ret.out[k].inTime = BroadcastTime

\* a request addressed to another ASIC has been accepted and its one copy,
\* for the East neighbour, was deferred by the busy link
C24_Witness ==
  /\ AcceptedRequest
  /\ ret.item.QPByte.Dest
  /\ Len(ret.out) = 1
  /\ ret.out[1].asic = Some(2)
  /\ ret.out[1].inTime > BroadcastTime

\* C25: when ReceiveByte has accepted a REGREQ of any operation on an ASIC
\* whose ManRoute is unset, the DirMask of the ASIC's configuration is the
\* ingress direction of the request; with ManRoute set the DirMask is as
\* the configuration had it.
C25_RouteIsIngress ==
  AcceptedRequest =>
    IF ~configs[ret.before.config].ManRoute
      THEN configs[asics[ret.node].config].DirMask = ret.item.dir
      ELSE asics[ret.node].config = ret.before.config

(***************************************************************************)
(* _ReadHits on its own: ASIC (0,1) holds up to two injected hits and      *)
(* _ReadHits is called with target times below, at and above the hit times. *)
(***************************************************************************)
InitHits ==
  \E n \in 0 .. 2 :
    \E hits \in [1 .. n -> {1500, 2100, 3000} \X {<<3>>, <<1, 3, 8>>}] :
      /\ asics = [BuildMesh(LineMesh, [k \in Nodes(LineMesh) |-> IF k = 0 THEN 0 ELSE -3])
                    EXCEPT ![1] = InjectHits(@, hits)]
      /\ configs = BuildConfigs(LineMesh, NoFlags)
      /\ queue = EmptyQueue
      /\ popped = <<>>
      /\ ret = [op |-> "init"]
      /\ fatal = FALSE
      /\ timeNow = 0
      /\ pc = "hits"
      /\ reqs = <<>>
      /\ injected = [k \in Nodes(LineMesh) |-> IF k = 1 THEN n ELSE 0]
      /\ reqLog = [k \in Nodes(LineMesh) |-> <<>>]
      /\ calls = 0
      /\ qpFifo = QPFifoInit(FifoDepth)
      /\ fifoLog = NoLog

\* _ReadHits(targetTime) on the ASIC
ReadHitsCall(targetTime) ==
  /\ calls < MaxCalls
  /\ asics' = [asics EXCEPT ![1] = _ReadHits(@, targetTime).a]
  /\ ret' = [op |-> "_ReadHits", node |-> 1, targetTime |-> targetTime,
             before |-> asics[1], count |-> _ReadHits(asics[1], targetTime).count]
  /\ calls' = calls + 1
  /\ UNCHANGED <<queue, popped, configs, fatal, timeNow, pc, reqs, injected,
                 reqLog, qpFifo, fifoLog>>

NextHits == \E targetTime \in {1000, 1500, 2100, 3000, 4000} : ReadHitsCall(targetTime)

SpecHits == InitHits /\ [][NextHits]_vars

\* the number of pending hits of b not later than t
Due(b, t) == Cardinality({k \in 1 .. Len(b.times) : b.times[k] <= t})

\* C26: _ReadHits(targetTime) removes exactly the pending hits with time <=
\* targetTime, a hit at targetTime included, writes one DATA byte for each to
\* the local FIFO in time order, returns their count and leaves the later
\* hits as they were.
C26_ReadHitsUpTo ==
  ret.op = "_ReadHits" =>
    /\ ret.count = Due(ret.before, ret.targetTime)
    /\ asics[1].times = SubSeq(ret.before.times, Due(ret.before, ret.targetTime) + 1,
                               Len(ret.before.times))
    /\ asics[1].channels = SubSeq(ret.before.channels,
                                  Due(ret.before, ret.targetTime) + 1,
                                  Len(ret.before.channels))
    /\ asics[1].localFifo.data =
         ret.before.localFifo.data
           \o HitBytes(ret.before, Due(ret.before, ret.targetTime))

\* C27: UpdateTime(absTime) with absTime <= _absTimeNow leaves the three
\* clock fields alone; with absTime > _absTimeNow it sets _absTimeNow to
\* absTime and advances relTicksNow by floor((absTime - relTimeNow) / tOsc) + 1
\* and relTimeNow by that many periods, also for absTime below relTimeNow.
C27_ClockAdvance ==
  (ret.op = "UpdateTime" /\ ~fatal) =>
    IF ret.absTime <= ret.before.absTimeNow
      THEN /\ asics[1].absTimeNow = ret.before.absTimeNow
           /\ asics[1].relTimeNow = ret.before.relTimeNow
           /\ asics[1].relTicksNow = ret.before.relTicksNow
      ELSE /\ asics[1].absTimeNow = ret.absTime
           /\ asics[1].relTicksNow =
                ret.before.relTicksNow
                  + ((ret.absTime - ret.before.relTimeNow) \div ret.before.tOsc) + 1
           /\ asics[1].relTimeNow =
                ret.before.relTimeNow
                  + (((ret.absTime - ret.before.relTimeNow) \div ret.before.tOsc) + 1)
                      * ret.before.tOsc

\* the UpdateTime call just made was a Tx on a link that send reported busy
BusyTx ==
  /\ ret.op = "UpdateTime" /\ ret.dir # None /\ ret.isTx
  /\ ret.before.connections[ret.dir[1]].asic # None
  /\ ret.before.connections[ret.dir[1]].txBusy
       > ret.absTime - ret.before.connections[ret.dir[1]].transTime

\* C28: QPException is never raised: when send(T) reports the Tx busy, the
\* retry at txBusy + transferTime + tOsc is accepted, UpdateTime returns that
\* time and txBusy is left equal to it.
C28_RetryAccepted ==
  /\ ~fatal
  /\ BusyTx =>
       /\ ret.transT = ret.before.connections[ret.dir[1]].txBusy
                         + ret.before.transferTime + ret.before.tOsc
       /\ asics[1].connections[ret.dir[1]].txBusy = ret.transT

\* a Tx at 3000 on the West link, busy until 30000, has been deferred
C28_Witness ==
  /\ BusyTx
  /\ ret.before.connections[3].txBusy = 30000
  /\ ret.absTime = 3000
  /\ ret.transT > 30000

\* the neighbour the DirMask of node n points at: None or <<node>>
Upstream(n) == asics[n].connections[configs[asics[n].config].DirMask].asic

\* following DirMask from node n reaches the DaqNode within k hops
RECURSIVE ReachesDaq(_, _)
ReachesDaq(n, k) ==
  \/ n = 0
  \/ /\ k > 0
     /\ Upstream(n) # None
     /\ ReachesDaq(Upstream(n)[1], k - 1)

\* C29: once the single broadcast REGREQ of a run has flooded the mesh, the
\* DirMask of every ASIC points at a present neighbour and following DirMask
\* leads from every ASIC to the DaqNode: the pointers form a tree rooted at
\* the DaqNode.
C29_RoutesFormTree ==
  (Len(reqs) = 1 /\ pc # "setup") =>
    /\ \A n \in AsicNodes :
         asics[n].reqID = 1 => ReachesDaq(n, Cardinality(AsicNodes))
    /\ (AllStored(1) /\ NoRegReqQueued) =>
         \A n \in AsicNodes :
           Upstream(n) # None /\ ReachesDaq(n, Cardinality(AsicNodes))

\* the flood of the 2x2 mesh is over and ASIC (1,1) routes through a
\* neighbour that is not the DaqNode
C29_Witness ==
  /\ Len(reqs) = 1 /\ pc # "setup"
  /\ Cardinality(AsicNodes) = 3
  /\ AllStored(1) /\ NoRegReqQueued
  /\ asics[3].row = 1 /\ asics[3].col = 1
  /\ Upstream(3) # None /\ Upstream(3) # Some(0)
  /\ ReachesDaq(3, 2) /\ ~ReachesDaq(3, 1)

\* C30: every tuple ReceiveByte or Process returns names a present
\* neighbour as its destination, also when the ASIC emits before a REGREQ
\* has taught it a DirMask or after a register write has installed one.
C30_DestinationPresent ==
  \A e \in EmittedEvents : e[2].asic # None

\* C31: when a ReceiveByte or Process call has returned, the state of every
\* ASIC is Idle, TransmitLocal, TransmitRemote or Finish: TransmitRemoteFull
\* is held only inside a Process call, TransmitReg is never entered and the
\* undefined-state branch of Process is never taken.
C31_StateAtReturn ==
  \A n \in DOMAIN asics :
    asics[n].state \in {"Idle", "TransmitLocal", "TransmitRemote", "Finish"}

\* a Process call on an ASIC with sendRemote set found a byte in the remote
\* FIFO, forwarded it through TransmitRemoteFull and returned in
\* TransmitRemote
C31_Witness ==
  /\ ret.op = "Process"
  /\ configs[asics[1].config].SendRemote
  /\ ret.before[1].state = "Idle"
  /\ ret.before[1].remoteFifo.curSize = 1
  /\ Len(ret.outs[1]) = 1
  /\ asics[1].remoteFifo.curSize = 0
  /\ asics[1].state = "TransmitRemote"

====
